---- MODULE Spec2Model ----
(***************************************************************************)
(* rust-devtools-mcp: the project registry (src/src/context.rs), the       *)
(* language-server client state and its progress handler                   *)
(* (src/src/lsp/client_state.rs, src/src/lsp/rust_analyzer_lsp.rs), the     *)
(* symbol resolver and the text-edit applier (src/src/mcp/utils.rs).        *)
(*                                                                         *)
(* Each component has its own specification over the shared variables:     *)
(*   SpecRegistry  add_project / remove_project / snapshot tasks           *)
(*   SpecLsp       ClientState::progress and the completion channel        *)
(*   SpecResolve   resolve_symbol_in_project                               *)
(*   SpecEdit      apply_edits_to_file                                     *)
(* The variables of the other components keep their initial values.        *)
(***************************************************************************)
EXTENDS Integers, Sequences, FiniteSets, TLC

VARIABLES
    \* ---- registry (context.rs) ----
    projects,     \* Context.projects: root -> NoProject or the ProjectContext
    calls,        \* the add_project / remove_project calls in progress
    tasks,        \* spawned request_project_descriptions tasks not yet run
    log,          \* what reached the notifier channel and the config file, in real-time order
    configFile,   \* the roots the persisted file lists (NoFile before the first write)
    nextSid,      \* identity of the next RustAnalyzerLsp session spawned
    nStarted,     \* number of calls started so far
    handed,       \* the sessions remove_project returned to its caller
    \* ---- language-server client (client_state.rs, rust_analyzer_lsp.rs) ----
    lspOut,       \* ClientState.notifier: the LspNotifications sent, in order
    indexedQ,     \* number of () items queued on the indexed_tx / indexed_rx channel
    indexedSent,  \* number of successful tx.try_send(()) so far
    released,     \* the open_file callers released by indexed_rx.recv_async()
    waiting,      \* the open_file callers blocked in recv_async()
    events,       \* the progress events handled so far
    \* ---- resolver (mcp/utils.rs) ----
    rsInput,      \* the workspace-symbol response and file hint of the call
    rsDedup,      \* deduplicated_symbols, in the order the HashMap of groups iterated
    rsResult,     \* the value resolve_symbol_in_project returned
    \* ---- edit applier (mcp/utils.rs) ----
    disk,         \* the file's content on disk
    edInput,      \* the call's input: the content the file had and the edit batch
    edResult,     \* what apply_edits_to_file returned
    nWrites,      \* number of fs::write calls made on the file
    \* ---- language-server sessions (rust_analyzer_lsp.rs, context.rs) ----
    sess,         \* per session: construction state, subprocess, I/O loop task, mutexes, messages written
    registered,   \* the sessions inserted into Context.projects
    hung,         \* the sessions whose subprocess never exits
    sTasks,       \* the callers of request operations and of shutdown: position and last return
    nReq,         \* number of request and direct shutdown calls started so far
    saTodo,       \* shutdown_all: the entries its iteration has not finished yet
    saRes,        \* shutdown_all: per session "todo" in its iteration, then what p.lsp.shutdown() returned
    saLog,        \* shutdown_all: the sessions whose shutdown error was logged
    \* ---- lookup by path (context.rs) ----
    lkRoots,      \* the roots Context.projects has an entry for
    lkPath,       \* the path get_project_by_path is called with
    lkResult,     \* what get_project_by_path returned
    \* ---- loading the persisted registry (context.rs) ----
    ldFile,       \* what is at config_path: nothing, unreadable bytes, blank text, bad TOML, or entries
    ldEntries,    \* the roots of the entries the file lists
    ldFs,         \* per root: what the file system has there (a directory, a file, nothing)
    ldTodo,       \* load_config: the entries its loop has not visited yet
    ldProjects,   \* the roots registered in Context.projects
    ldSkipped,    \* the entries skipped by the validation of their root
    ldFailed,     \* the entries whose Project::new or add_project failed
    ldSaved,      \* the roots in the file last written by add_project's write_config
    ldPc,         \* load_config: position
    ldRet,        \* load_config: <<>> or the value returned
    \* ---- notification bus (context.rs) ----
    busLspQ,      \* lsp_sender / lsp_receiver: the LspNotifications queued
    busMcpQ,      \* mcp_sender / mcp_receiver: the McpNotifications queued
    busOut,       \* notifier: the ContextNotifications the loop sent, in order
    busLspOpen,   \* some lsp_sender is alive
    busMcpOpen,   \* some mcp_sender is alive
    busObOpen,    \* the receiver of notifier is alive
    busDone,      \* the loop has left through its else branch
    busSentL,     \* number of LspNotifications sent so far
    busSentM,     \* number of McpNotifications sent so far
    busIndexing,  \* is_indexing_lsp of the project the LspNotifications are about
    \* ---- tool handlers (mcp/server.rs) ----
    tcProjects,   \* the names of the projects in the registry
    tcLastProject,\* DevToolsServer.last_project
    tcActions,    \* DevToolsServer.code_actions: the ids stored
    tcSent,       \* the McpNotifications the handlers sent, in order
    tcCall,       \* the last tool call: its arguments, path taken and result
    tcN,          \* number of tool calls so far
    \* ---- build-tool runner (cargo_remote.rs) ----
    cgOp,         \* the operation called: check_structured, check_rendered or test
    cgStdout,     \* the standard output of the cargo subprocess
    cgRun,        \* <<>> or what run_cargo_command returned
    cgRet,        \* <<>> or what the operation returned
    \* ---- workspace edits (mcp/utils.rs) ----
    wsIn,         \* per file of the WorkspaceEdit: whether its URI is a file path, the content, the edits
    wsDisk,       \* per file: its content on disk
    wsTodo,       \* apply_workspace_edit: the files its loop has not visited yet
    wsRet,        \* <<>> or how apply_workspace_edit ended, and on which file
    \* ---- position to offset (mcp/utils.rs) ----
    ofContent,    \* the content pos_to_offset is called with
    ofPos,        \* the position it is called with
    ofResult,     \* <<>> or the offset it returned
    \* ---- the code actions of DevToolsServer (mcp/server.rs) ----
    caStore,      \* DevToolsServer.code_actions: the actions stored
    caGen,        \* number of actions stored so far
    caN,          \* number of tool calls other than execute_code_action so far
    caExec,       \* per caller of execute_code_action: position, id, action taken, result
    caApplied,    \* the actions whose edit was applied, with the caller that applied it
    caCalled,     \* the ids execute_code_action was called with
    caPreviewed,  \* the ids rename_symbol stored a preview under
    caListed,     \* <<>> or the ids list_code_actions returned last
    caLast,       \* the last tool call and the project it was about
    \* ---- hot reload (config_watcher.rs) ----
    hrFile,       \* what is at config_path
    hrEntries,    \* the roots of the entries the file lists
    hrFs,         \* per root: what the file system has there
    hrProjects,   \* the roots registered in Context.projects
    hrPending,    \* the debouncer holds an event of the file
    hrTasks,      \* per spawned reload task: position and the entries not visited yet
    \* ---- the indexing flag (context.rs) ----
    ixQ,          \* lsp_receiver: the Indexing notifications queued
    ixOut,        \* notifier: the notifications sent and not yet received
    ixFlags,      \* per registered root: is_indexing_lsp
    ixPc,         \* the loop: <<>> at select!, or the notification sent whose flag is not stored yet
    ixSpawned,    \* the roots add_project has a session for and has not inserted yet
    ixLast,       \* per root: <<>> or the is_indexing of the last Indexing notification of its session
    ixN,          \* number of Indexing notifications sent so far
    ixObs         \* <<>> or what the consumer received and the flag it then read

regVars == <<projects, calls, tasks, log, configFile, nextSid, nStarted, handed>>
lspVars == <<lspOut, indexedQ, indexedSent, released, waiting, events>>
rsVars == <<rsInput, rsDedup, rsResult>>
edVars == <<disk, edInput, edResult, nWrites>>
sessVars == <<sess, registered, hung, sTasks, nReq, saTodo, saRes, saLog>>
lkVars == <<lkRoots, lkPath, lkResult>>
\* The variables of the components below the sessions.
ldVars == <<ldFile, ldEntries, ldFs, ldTodo, ldProjects, ldSkipped, ldFailed, ldSaved, ldPc, ldRet>>
busVars == <<busLspQ, busMcpQ, busOut, busLspOpen, busMcpOpen, busObOpen, busDone,
             busSentL, busSentM, busIndexing>>
tcVars == <<tcProjects, tcLastProject, tcActions, tcSent, tcCall, tcN>>
cgVars == <<cgOp, cgStdout, cgRun, cgRet>>
wsVars == <<wsIn, wsDisk, wsTodo, wsRet>>
ofVars == <<ofContent, ofPos, ofResult>>
caVars == <<caStore, caGen, caN, caExec, caApplied, caCalled, caPreviewed, caListed, caLast>>
hrVars == <<hrFile, hrEntries, hrFs, hrProjects, hrPending, hrTasks>>
ixVars == <<ixQ, ixOut, ixFlags, ixPc, ixSpawned, ixLast, ixN, ixObs>>
firstVars == <<lkVars, ldVars, busVars, tcVars, cgVars, wsVars, ofVars>>
restVars == <<firstVars, caVars, hrVars, ixVars>>
\* The variables of the components up to the sessions.
coreVars == <<regVars, lspVars, rsVars, edVars, sessVars>>
vars == <<coreVars, restVars>>

None == "None"
\* The lookup variables where no lookup is modelled.
LkIdle == lkRoots = {} /\ lkPath = <<>> /\ lkResult = <<>>
\* The components below the sessions, none of them modelled.
\* The load variables where no load is modelled.
LdIdle ==
    /\ ldFile = "missing" /\ ldEntries = {} /\ ldFs = <<>> /\ ldTodo = {}
    /\ ldProjects = {} /\ ldSkipped = {} /\ ldFailed = {} /\ ldSaved = {}
    /\ ldPc = "idle" /\ ldRet = <<>>
\* The bus variables where no bus is modelled.
BusIdle ==
    /\ busLspQ = <<>> /\ busMcpQ = <<>> /\ busOut = <<>>
    /\ busLspOpen = FALSE /\ busMcpOpen = FALSE /\ busObOpen = FALSE /\ busDone = TRUE
    /\ busSentL = 0 /\ busSentM = 0 /\ busIndexing = FALSE
\* The tool-handler variables where no tool call is modelled.
TcIdle ==
    /\ tcProjects = {} /\ tcLastProject = None /\ tcActions = {}
    /\ tcSent = <<>> /\ tcCall = <<>> /\ tcN = 0
\* The build-tool variables where no build-tool run is modelled.
CgIdle == cgOp = None /\ cgStdout = <<>> /\ cgRun = <<>> /\ cgRet = <<>>
\* The workspace-edit variables where no workspace edit is modelled.
WsIdle == wsIn = <<>> /\ wsDisk = <<>> /\ wsTodo = {} /\ wsRet = <<>>
\* The offset variables where no conversion is modelled.
OfIdle == ofContent = <<>> /\ ofPos = <<>> /\ ofResult = <<>>
\* The code-action variables where no code action is modelled.
CaIdle ==
    /\ caStore = {} /\ caGen = 0 /\ caN = 0 /\ caExec = <<>> /\ caApplied = {}
    /\ caCalled = {} /\ caPreviewed = {} /\ caListed = <<>> /\ caLast = <<>>
\* The hot-reload variables where no watcher is modelled.
HrIdle ==
    /\ hrFile = "missing" /\ hrEntries = {} /\ hrFs = <<>> /\ hrProjects = {}
    /\ hrPending = FALSE /\ hrTasks = <<>>
\* The indexing-flag variables where no flag is modelled.
IxIdle ==
    /\ ixQ = <<>> /\ ixOut = <<>> /\ ixFlags = <<>> /\ ixPc = <<>> /\ ixSpawned = {}
    /\ ixLast = <<>> /\ ixN = 0 /\ ixObs = <<>>
FirstIdle == LkIdle /\ LdIdle /\ BusIdle /\ TcIdle /\ CgIdle /\ WsIdle /\ OfIdle
RestIdle == FirstIdle /\ CaIdle /\ HrIdle /\ IxIdle
\* The session variables where no session is modelled.
SessIdle ==
    /\ sess = <<>> /\ registered = {} /\ hung = {} /\ sTasks = <<>>
    /\ nReq = 0 /\ saTodo = <<>> /\ saRes = <<>> /\ saLog = {}
\* The edit applier's variables where no apply call is modelled.
EdIdle == disk = <<>> /\ edInput = <<>> /\ edResult = "NotCalled" /\ nWrites = 0
\* The resolver's variables where no resolver call is modelled.
RsIdle == rsInput = <<>> /\ rsDedup = <<>> /\ rsResult = <<>>
\* The written roots are a set; before the first write the file does not exist.
NoFile == {"<no file>"}
\* An absent map entry.
NoProject == [sid |-> 0, is_indexing_lsp |-> FALSE]


-----------------------------------------------------------------------------
(***************************************************************************)
(* Strings are sequences of one-character strings, so that the str and     *)
(* Path operations the code uses are computed character by character.      *)
(***************************************************************************)

\* char::to_lowercase on the letters that occur in the paths below.
LowerChar(c) ==
    IF c = "S" THEN "s" ELSE IF c = "R" THEN "r" ELSE IF c = "C" THEN "c" ELSE c

\* str::to_lowercase
ToLower(s) == [i \in DOMAIN s |-> LowerChar(s[i])]

\* sub occurs in s at position i.
OccursAt(s, sub, i) ==
    /\ i >= 1
    /\ i + Len(sub) - 1 <= Len(s)
    /\ \A j \in 1..Len(sub) : s[i + j - 1] = sub[j]

\* str::contains
Contains(s, sub) == \E i \in 1..(Len(s) - Len(sub) + 1) : OccursAt(s, sub, i)

\* str::ends_with
EndsWith(s, suf) == Len(suf) <= Len(s) /\ OccursAt(s, suf, Len(s) - Len(suf) + 1)

\* str::matches(c).count()
CountChar(s, c) == Cardinality({i \in DOMAIN s : s[i] = c})

\* Path::components of a path without "." and ".." parts: the non-empty pieces
\* between separators.
RECURSIVE Components(_)
Components(s) ==
    IF s = <<>> THEN <<>>
    ELSE LET rest == Components(Tail(s))
             glued == Len(s) >= 2 /\ s[2] # "/"
         IN IF s[1] = "/" THEN rest
            ELSE IF glued THEN <<(<<s[1]>> \o rest[1])>> \o Tail(rest)
            ELSE <<(<<s[1]>>)>> \o rest

\* Path::ends_with(child) for a relative child: child's components are the last
\* components of the path.
PathEndsWith(path, child) ==
    LET pc == Components(path)
        cc == Components(child)
    IN /\ Len(cc) <= Len(pc)
       /\ \A j \in 1..Len(cc) : pc[Len(pc) - Len(cc) + j] = cc[j]

-----------------------------------------------------------------------------
(***************************************************************************)
(* Registry: Context::add_project, Context::remove_project,                *)
(* Context::request_project_descriptions, Context::write_config.           *)
(***************************************************************************)

\* Canonical project roots used as map keys.
Roots == {"r1", "r2"}
\* The callers that may be inside add_project / remove_project at the same time
\* (tool-call handlers and reload tasks run on a multi-threaded runtime).
CallIds == {"c1", "c2"}
\* Registry calls started in one behaviour.
MaxOps == 2

IdleCall == [op |-> "idle", pc |-> "idle", root |-> None, sid |-> 0, old |-> 0,
             snap |-> {}, ret |-> None, mid |-> 0, dir |-> <<>>, after |-> {}]

\* The directories callers name, as path components below a common parent: the
\* roots themselves and other spellings of r1.
Dirs == {<<"r1">>, <<"r2">>, <<"r2", "..", "r1">>}

\* Path::canonicalize on an existing directory (there are no symbolic links
\* here): "." is dropped and ".." drops the component before it.
RECURSIVE Resolve2(_, _)
Resolve2(done, rest) ==
    IF rest = <<>> THEN done
    ELSE IF rest[1] = "." THEN Resolve2(done, Tail(rest))
    ELSE IF rest[1] = ".." THEN Resolve2(SubSeq(done, 1, Len(done) - 1), Tail(rest))
    ELSE Resolve2(Append(done, rest[1]), Tail(rest))

Canonicalize(d) == Resolve2(<<>>, d)

\* Project::new(d).root: the root the canonical path names.
ProjectRoot(d) == Canonicalize(d)[1]

\* The components two PathBufs are compared by: "." is normalised away, ".."
\* is kept.
DropDots(d) == SelectSeq(d, LAMBDA x : x # ".")

\* The key of Context.projects that equals the path d as given, None when no
\* root is spelled d: DashMap::get compares the PathBuf itself.
ExactKey(d) ==
    LET n == DropDots(d) IN IF Len(n) = 1 /\ n[1] \in Roots THEN n[1] ELSE None

\* The ProjectContext add_project builds: is_indexing_lsp starts true.
NewProjectContext(sid) == [sid |-> sid, is_indexing_lsp |-> TRUE]

Registered == {r \in Roots : projects[r] # NoProject}

\* One entry of the real-time log. k is "Write" for a write_config attempt and the
\* ContextNotification variant otherwise; mid is the number of the call that caused it.
LogEntry(k, root, roots, ok, mid) ==
    [k |-> k, root |-> root, roots |-> roots, ok |-> ok, mid |-> mid]

RegInitVals ==
    /\ projects = [r \in Roots |-> NoProject]
    /\ calls = [c \in CallIds |-> IdleCall]
    /\ tasks = {}
    /\ log = <<>>
    /\ configFile = NoFile
    /\ nextSid = 1
    /\ nStarted = 0
    /\ handed = {}

\* Where add_project goes when RustAnalyzerLsp::new failed: the ? returns the
\* error at once.
AfterSpawnErrorInsert == "insert"
AfterSpawnError == "done"

\* What add_project returns after write_config, whose error it only logs.
AddReturnsWriteResult(ok) == IF ok THEN "Ok" ELSE "Err"
AddReturns(ok) == "Ok"

\* Project::new(d) and add_project(project) up to its first await: RustAnalyzerLsp::new(...).await?
\* spawns the session and does the handshake, or the call returns the error.
AddSpawn(c, d) ==
    /\ calls[c].pc \in {"idle", "done"}
    /\ nStarted < MaxOps
    /\ nStarted' = nStarted + 1
    /\ \/ /\ calls' = [calls EXCEPT ![c] =
                         [IdleCall EXCEPT !.op = "add", !.pc = "insert",
                                          !.root = ProjectRoot(d), !.dir = d,
                                          !.sid = nextSid, !.mid = nStarted + 1]]
          /\ nextSid' = nextSid + 1
       \/ /\ calls' = [calls EXCEPT ![c] =
                         [IdleCall EXCEPT !.op = "add", !.pc = AfterSpawnError,
                                          !.root = ProjectRoot(d), !.dir = d,
                                          !.ret = "Err", !.mid = nStarted + 1]]
          /\ UNCHANGED nextSid
    /\ UNCHANGED <<projects, tasks, log, configFile, handed>>

\* What add_project does about the entry already under root: nothing, it goes on
\* to insert (there is no early return).
AddRejects(prev) == FALSE

\* self.projects.insert(root, project_context); self.request_project_descriptions();
\* DashMap::insert overwrites and returns the previous value, which the code drops
\* (kept here in old).
AddInsert(c) ==
    /\ calls[c].op = "add" /\ calls[c].pc = "insert"
    /\ LET r == calls[c].root
           prev == projects[r]
       IN IF AddRejects(prev)
          THEN /\ calls' = [calls EXCEPT ![c].pc = "done", ![c].ret = "AlreadyLoaded",
                                         ![c].old = prev.sid]
               /\ UNCHANGED <<projects, tasks>>
          ELSE /\ projects' = [projects EXCEPT ![r] = NewProjectContext(calls[c].sid)]
               /\ calls' = [calls EXCEPT ![c].pc = "collect", ![c].old = prev.sid]
               /\ tasks' = tasks \cup {calls[c].mid}
    /\ UNCHANGED <<log, configFile, nextSid, nStarted, handed>>

\* write_config, first half: iterate self.projects into projects_to_save.
WriteCollect(c) ==
    /\ calls[c].pc = "collect"
    /\ calls' = [calls EXCEPT ![c].pc = "fswrite", ![c].snap = Registered]
    /\ UNCHANGED <<projects, tasks, log, configFile, nextSid, nStarted, handed>>

\* What add_project sends after write_config returned, whether it failed or not.
AddNotification(c) == <<LogEntry("ProjectAdded", calls[c].root, {}, TRUE, calls[c].mid)>>

\* write_config, second half: serialise and fs::write; a failure is logged only.
\* add_project then sends ProjectAdded and returns Ok(()); remove_project returns
\* the removed session.
WriteFile(c) ==
    /\ calls[c].pc = "fswrite"
    /\ \E ok \in BOOLEAN :
          /\ configFile' = IF ok THEN calls[c].snap ELSE configFile
          /\ log' = log \o <<LogEntry("Write", calls[c].root, calls[c].snap, ok, calls[c].mid)>>
                        \o (IF calls[c].op = "add" THEN AddNotification(c) ELSE <<>>)
          /\ calls' = [calls EXCEPT ![c].pc = "done", ![c].snap = {},
                                    ![c].ret = IF calls[c].op = "add" THEN AddReturns(ok)
                                               ELSE calls[c].ret]
    /\ UNCHANGED <<projects, tasks, nextSid, nStarted, handed>>

\* The spawned task of request_project_descriptions runs: it reads the map and
\* sends ContextNotification::ProjectDescriptions.
SnapshotTask(m) ==
    /\ m \in tasks
    /\ tasks' = tasks \ {m}
    /\ log' = Append(log, LogEntry("ProjectDescriptions", None, Registered, TRUE, m))
    /\ UNCHANGED <<projects, calls, configFile, nextSid, nStarted, handed>>

\* The tasks remove_project spawns when it removed a session: none
\* (it never calls request_project_descriptions).
RemoveSpawns(m) == {}

\* get_project(root): self.projects.get(root) with the path as given. old keeps
\* the session registered under the path's canonical root at that moment, after
\* the add_project calls for the same path that had returned Ok by then.
GetProject(c, d) ==
    /\ calls[c].pc \in {"idle", "done"}
    /\ nStarted < MaxOps
    /\ nStarted' = nStarted + 1
    /\ LET k == ExactKey(d)
           found == IF k = None THEN NoProject ELSE projects[k]
       IN calls' = [calls EXCEPT ![c] =
                      [IdleCall EXCEPT !.op = "get", !.pc = "done", !.dir = d,
                                       !.root = ProjectRoot(d),
                                       !.ret = IF found = NoProject THEN None ELSE "Some",
                                       !.sid = found.sid,
                                       !.old = projects[ProjectRoot(d)].sid,
                                       !.after = {calls[a].mid : a \in
                                                    {b \in CallIds :
                                                        /\ calls[b].op = "add"
                                                        /\ calls[b].pc = "done"
                                                        /\ calls[b].ret = "Ok"
                                                        /\ calls[b].dir = d}},
                                       !.mid = nStarted + 1]]
    /\ UNCHANGED <<projects, tasks, log, configFile, nextSid, handed>>

\* What remove_project sends when it removed a session.
RemoveNotificationNone(r, m) == <<>>
RemoveNotification(r, m) == <<LogEntry("ProjectRemoved", r, {}, TRUE, m)>>

\* if project.is_some() in remove_project: a session was under the root.
RemoveFoundAlways(prev) == TRUE
RemoveFound(prev) == prev # NoProject

\* remove_project(root): self.projects.remove(root); when a session was removed,
\* send ProjectRemoved and go on to write_config; otherwise return None.
RemoveTake(c, r) ==
    /\ calls[c].pc \in {"idle", "done"}
    /\ nStarted < MaxOps
    /\ nStarted' = nStarted + 1
    /\ LET prev == projects[r]
           m == nStarted + 1
       IN IF ~RemoveFound(prev)
          THEN /\ calls' = [calls EXCEPT ![c] =
                              [IdleCall EXCEPT !.op = "remove", !.pc = "done", !.root = r,
                                               !.ret = None, !.mid = m]]
               /\ UNCHANGED <<projects, tasks, log, handed>>
          ELSE /\ projects' = [projects EXCEPT ![r] = NoProject]
               /\ handed' = handed \cup {prev.sid}
               /\ calls' = [calls EXCEPT ![c] =
                              [IdleCall EXCEPT !.op = "remove", !.pc = "collect", !.root = r,
                                               !.ret = "Some", !.old = prev.sid, !.mid = m]]
               /\ tasks' = tasks \cup RemoveSpawns(m)
               /\ log' = log \o RemoveNotification(r, m)
    /\ UNCHANGED <<configFile, nextSid>>

RegInit ==
    /\ RegInitVals
    /\ lspOut = <<>> /\ indexedQ = 0 /\ indexedSent = 0 /\ released = {}
    /\ waiting = {} /\ events = <<>>
    /\ RsIdle
    /\ EdIdle
    /\ SessIdle
    /\ RestIdle

RegNext ==
    \/ \E c \in CallIds, d \in Dirs : AddSpawn(c, d) /\ UNCHANGED <<lspVars, rsVars, edVars, sessVars, restVars>>
    \/ \E c \in CallIds, d \in Dirs : GetProject(c, d) /\ UNCHANGED <<lspVars, rsVars, edVars, sessVars, restVars>>
    \/ \E c \in CallIds : AddInsert(c) /\ UNCHANGED <<lspVars, rsVars, edVars, sessVars, restVars>>
    \/ \E c \in CallIds : WriteCollect(c) /\ UNCHANGED <<lspVars, rsVars, edVars, sessVars, restVars>>
    \/ \E c \in CallIds : WriteFile(c) /\ UNCHANGED <<lspVars, rsVars, edVars, sessVars, restVars>>
    \/ \E m \in 1..MaxOps : SnapshotTask(m) /\ UNCHANGED <<lspVars, rsVars, edVars, sessVars, restVars>>
    \/ \E c \in CallIds, r \in Roots : RemoveTake(c, r) /\ UNCHANGED <<lspVars, rsVars, edVars, sessVars, restVars>>

SpecRegistry == RegInit /\ [][RegNext]_vars

\* The calls that changed the registry: a successful add_project, or a
\* remove_project that removed a session.
Mutated(c) ==
    \/ calls[c].op = "add" /\ calls[c].pc = "done" /\ calls[c].ret = "Ok"
    \/ calls[c].op = "remove" /\ calls[c].pc = "done" /\ calls[c].ret = "Some"

LogHas(k, m) == \E i \in DOMAIN log : log[i].k = k /\ log[i].mid = m

\* C1: add_project for a root that is already registered fails with AlreadyLoaded
\* and does not replace the session registered under that root: a call that found
\* a session under its root (old # 0) has returned AlreadyLoaded, and the session
\* it spawned is not the one in the map.
C1_DuplicateAddFails ==
    \A c \in CallIds :
        (calls[c].op = "add" /\ calls[c].old # 0)
            => /\ calls[c].ret = "AlreadyLoaded"
               /\ projects[calls[c].root].sid # calls[c].sid

\* C2, first half: a registry snapshot is never emitted before the persistence
\* write of the mutation that triggered it.
C2_SnapshotAfterWrite ==
    \A i \in DOMAIN log :
        log[i].k = "ProjectDescriptions"
            => \E j \in 1..(i - 1) : log[j].k = "Write" /\ log[j].mid = log[i].mid

\* C2, second half: every mutation, removals included, has had its write and its
\* snapshot once the call has returned and its spawned task has run.
C2_MutationSnapshot ==
    \A c \in CallIds :
        (Mutated(c) /\ calls[c].mid \notin tasks)
            => LogHas("Write", calls[c].mid) /\ LogHas("ProjectDescriptions", calls[c].mid)

\* C2: every registry mutation triggers a persistence write and then a
\* registry-snapshot notification, in that order, for removals as for additions.
C2_WriteThenSnapshot == C2_SnapshotAfterWrite /\ C2_MutationSnapshot

\* The log entries of kind k that call number m caused.
LogCount(k, m) == Cardinality({i \in DOMAIN log : log[i].k = k /\ log[i].mid = m})

\* C21: remove_project for a registered root removes and returns that root's
\* session: the session is under no root afterwards, no later lookup returns it,
\* ProjectRemoved for the root has been sent once, and once the call has
\* returned there has been one persistence write for it.
C21_RemoveRegistered ==
    \A c \in CallIds :
        (calls[c].op = "remove" /\ calls[c].ret = "Some")
            => /\ calls[c].old # 0
               /\ \A r \in Roots : projects[r].sid # calls[c].old
               /\ \A g \in CallIds :
                     (calls[g].op = "get" /\ calls[g].mid > calls[c].mid)
                         => calls[g].sid # calls[c].old
               /\ LogCount("ProjectRemoved", calls[c].mid) = 1
               /\ \A i \in DOMAIN log :
                     (log[i].k = "ProjectRemoved" /\ log[i].mid = calls[c].mid)
                         => log[i].root = calls[c].root
               /\ LogCount("Write", calls[c].mid) = IF calls[c].pc = "done" THEN 1 ELSE 0

\* A remove_project that removed a session has returned.
C21_Witness ==
    \E c \in CallIds :
        calls[c].op = "remove" /\ calls[c].ret = "Some" /\ calls[c].pc = "done"

\* C23: when spawning or handshaking the session fails, add_project returns an
\* error and nothing else changes: the failing step leaves the registry, the
\* file, the notifications and the spawned tasks as they were, and no write or
\* notification is ever attributed to the call.
C23_SpawnFailureNoEffect ==
    /\ [][\A c \in CallIds :
            (calls'[c] # calls[c] /\ calls'[c].op = "add" /\ calls'[c].ret = "Err")
                => /\ calls'[c].pc = "done"
                   /\ UNCHANGED <<projects, configFile, log, tasks>>]_vars
    /\ [](\A c \in CallIds :
            (calls[c].op = "add" /\ calls[c].ret = "Err")
                => /\ calls[c].pc = "done"
                   /\ \A i \in DOMAIN log : log[i].mid # calls[c].mid
                   /\ calls[c].mid \notin tasks
                   /\ \A r \in Roots : projects[r].sid = 0 \/ projects[r].sid # calls[c].sid)

\* An add_project has failed while a root is registered and persisted.
C23_Witness ==
    \E c \in CallIds :
        /\ calls[c].op = "add" /\ calls[c].ret = "Err" /\ calls[c].pc = "done"
        /\ Registered # {}
        /\ configFile = Registered

\* The write_config attempt of call number m failed.
WriteFailed(m) == \E i \in DOMAIN log : log[i].k = "Write" /\ log[i].mid = m /\ ~log[i].ok

\* C24: when the persistence write fails during add_project or remove_project
\* the failure is only logged: the write step leaves the registry as it is, the
\* call reports success (Ok, or the removed session), and the notifications of
\* the mutation are emitted (ProjectAdded and the snapshot, or ProjectRemoved).
C24_WriteFailureNotFatal ==
    /\ [][\A c \in CallIds : WriteFile(c) => UNCHANGED projects]_vars
    /\ [](\A c \in CallIds :
            (calls[c].pc = "done" /\ WriteFailed(calls[c].mid))
                => /\ calls[c].op = "add"
                      => /\ calls[c].ret = "Ok"
                         /\ LogCount("ProjectAdded", calls[c].mid) = 1
                         /\ calls[c].mid \in tasks
                               \/ LogCount("ProjectDescriptions", calls[c].mid) = 1
                   /\ calls[c].op = "remove"
                      => /\ calls[c].ret = "Some"
                         /\ LogCount("ProjectRemoved", calls[c].mid) = 1)

\* An add_project and a remove_project have both returned after their write
\* failed.
C24_Witness ==
    \E c1, c2 \in CallIds :
        /\ calls[c1].op = "add" /\ calls[c1].pc = "done" /\ WriteFailed(calls[c1].mid)
        /\ calls[c2].op = "remove" /\ calls[c2].pc = "done" /\ WriteFailed(calls[c2].mid)

\* The sessions RustAnalyzerLsp::new has spawned and handed to add_project.
Spawned == 1..(nextSid - 1)

\* The sessions an add_project that has not reached its insert yet still holds.
InHand == {calls[c].sid : c \in {a \in CallIds : calls[a].op = "add" /\ calls[a].pc = "insert"}}

\* The sessions registered under some root.
InRegistry == {projects[r].sid : r \in Registered}

\* C36: no session is orphaned: every session spawned successfully is on its way
\* into the registry, registered under a root, or was returned to a caller by
\* remove_project; none was replaced and left outside the registry.
C36_NoSessionOrphaned ==
    Spawned \subseteq (InHand \cup InRegistry \cup handed)

\* Every call has returned.
AllReturned == \A c \in CallIds : calls[c].pc \in {"idle", "done"}

\* The write_config attempts so far, all of which succeeded.
WritesAllOk ==
    /\ \E i \in DOMAIN log : log[i].k = "Write"
    /\ \A i \in DOMAIN log : log[i].k = "Write" => log[i].ok

\* C37: under every interleaving of add_project and remove_project calls, once
\* all calls have returned and every persistence write succeeded, the persisted
\* file lists exactly the roots registered in memory.
C37_FileMatchesRegistry ==
    (AllReturned /\ WritesAllOk) => configFile = Registered

\* C19: add_project(D) followed by get_project(D) returns the session whose root
\* is canonicalize(D), also for a D that is not canonical: a lookup made after an
\* add_project for the same path returned Ok, with a session registered under the
\* canonical root, returns that session.
C19_AddThenGet ==
    \A g \in CallIds :
        (calls[g].op = "get" /\ calls[g].after # {} /\ calls[g].old # 0)
            => calls[g].ret = "Some" /\ calls[g].sid = calls[g].old

\* The same for paths given in canonical form.
C19_AddThenGetCanonical ==
    \A g \in CallIds :
        (/\ calls[g].op = "get" /\ calls[g].after # {} /\ calls[g].old # 0
         /\ Canonicalize(calls[g].dir) = calls[g].dir)
            => calls[g].ret = "Some" /\ calls[g].sid = calls[g].old

\* C20: remove_project for a root that is not registered returns none, leaves the
\* registry unchanged, does not rewrite the persisted file and emits no
\* notification: the call is one step that changes nothing, and no write or
\* notification is ever attributed to it.
C20_RemoveUnregisteredNoEffect ==
    /\ [][\A c \in CallIds, r \in Roots :
            (RemoveTake(c, r) /\ projects[r] = NoProject)
                => /\ calls'[c].ret = None /\ calls'[c].pc = "done"
                   /\ UNCHANGED <<projects, configFile, log, tasks>>]_vars
    /\ [](\A c \in CallIds :
            (calls[c].op = "remove" /\ calls[c].ret = None)
                => /\ calls[c].pc = "done"
                   /\ \A i \in DOMAIN log : log[i].mid # calls[c].mid
                   /\ calls[c].mid \notin tasks)

\* A remove_project for an unregistered root has returned none while another root
\* is registered and persisted.
C20_Witness ==
    \E c \in CallIds :
        /\ calls[c].op = "remove" /\ calls[c].ret = None /\ calls[c].pc = "done"
        /\ projects[calls[c].root] = NoProject
        /\ Registered # {}
        /\ configFile = Registered

-----------------------------------------------------------------------------
(***************************************************************************)
(* Language-server client: ClientState::progress, ClientState::            *)
(* parse_progress, and the completion channel created in                   *)
(* RustAnalyzerLsp::new and read by RustAnalyzerLsp::open_file.            *)
(* The message-derived fields of IndexingProgress (current_crate, counts,  *)
(* percentage) are not represented: a notification carries its stage.      *)
(***************************************************************************)

\* Progress events handled in one behaviour.
MaxEvents == 3

\* RA_INDEXING_TOKENS
RA_INDEXING_TOKENS == {"rustAnalyzer/Indexing", "rustAnalyzer/cachePriming",
                       "rustAnalyzer/Building"}

\* params.token: NumberOrString. A string token carries its text, a numeric token
\* its decimal digits.
StrToken(s) == [num |-> FALSE, s |-> s]
NumToken(d) == [num |-> TRUE, s |-> d]
Tokens == {StrToken(s) : s \in RA_INDEXING_TOKENS \cup {"rustAnalyzer/Fetching"}}
              \cup {NumToken("7")}

\* params.value: WorkDoneProgress::{Begin, Report, End}
Kinds == {"Begin", "Report", "End"}

\* The callers of open_file on this session.
Waiters == {"w1", "w2"}

\* IndexingStage; name is empty except for Unknown(name).
Stage(kind, name) == [kind |-> kind, name |-> name]

\* parse_progress, the stage: exact match on the token text, Unknown otherwise.
StageOf(token) ==
    IF token.num THEN Stage("Unknown", <<"numeric_", token.s>>)
    ELSE IF token.s = "rustAnalyzer/Building" THEN Stage("Building", <<>>)
    ELSE IF token.s = "rustAnalyzer/cachePriming" THEN Stage("CachePriming", <<>>)
    ELSE IF token.s = "rustAnalyzer/Indexing" THEN Stage("Indexing", <<>>)
    ELSE Stage("Unknown", <<token.s>>)

\* progress(): the gate in front of everything else,
\* matches!(params.token, String(ref s) if RA_INDEXING_TOKENS.contains(s)).
IsIndexingToken(token) == ~token.num /\ token.s \in RA_INDEXING_TOKENS

\* LspNotification::Indexing { project, is_indexing, progress }
Indexing(is_indexing, stage) == [is_indexing |-> is_indexing, stage |-> stage]

\* A handler that notifies on state changes only: reports send nothing.
ProgressEmitsNoReport(token, kind) ==
    IF ~IsIndexingToken(token) \/ kind = "Report" THEN <<>>
    ELSE IF kind = "Begin" THEN <<Indexing(TRUE, StageOf(token))>>
    ELSE <<Indexing(FALSE, StageOf(token))>>

\* progress(): the notifications one event sends on self.notifier.
ProgressEmits(token, kind) ==
    IF ~IsIndexingToken(token) THEN <<>>
    ELSE IF kind # "End" THEN <<Indexing(TRUE, StageOf(token))>>
    ELSE <<Indexing(FALSE, StageOf(token))>>

\* progress(): the number of () items one event puts on indexed_tx. The sender is
\* kept in self.indexed_tx (borrowed, never taken) and the channel is unbounded,
\* so try_send succeeds for every end event of a tracked token.
ProgressSignals(token, kind) ==
    IF IsIndexingToken(token) /\ kind = "End" THEN 1 ELSE 0

\* ClientState::progress(params)
Progress(token, kind) ==
    /\ Len(events) < MaxEvents
    /\ events' = Append(events, [token |-> token, kind |-> kind])
    /\ lspOut' = lspOut \o ProgressEmits(token, kind)
    /\ LET n == ProgressSignals(token, kind)
       IN /\ indexedQ' = indexedQ + n
          /\ indexedSent' = indexedSent + n
    /\ UNCHANGED <<released, waiting>>

\* open_file up to its await: did_open is sent, the caller blocks in
\* self.indexed_rx.lock().await.recv_async().await
OpenFile(w) ==
    /\ w \notin waiting /\ w \notin released
    /\ waiting' = waiting \cup {w}
    /\ UNCHANGED <<lspOut, indexedQ, indexedSent, released, events>>

\* recv_async() returns one queued item: open_file returns Ok(()).
OpenFileReturns(w) ==
    /\ w \in waiting
    /\ indexedQ > 0
    /\ indexedQ' = indexedQ - 1
    /\ waiting' = waiting \ {w}
    /\ released' = released \cup {w}
    /\ UNCHANGED <<lspOut, indexedSent, events>>

LspInit ==
    /\ lspOut = <<>> /\ indexedQ = 0 /\ indexedSent = 0
    /\ released = {} /\ waiting = {} /\ events = <<>>
    /\ RegInitVals
    /\ RsIdle
    /\ EdIdle
    /\ SessIdle
    /\ RestIdle

LspNext ==
    \/ \E t \in Tokens, k \in Kinds : Progress(t, k) /\ UNCHANGED <<regVars, rsVars, edVars, sessVars, restVars>>
    \/ \E w \in Waiters : OpenFile(w) /\ UNCHANGED <<regVars, rsVars, edVars, sessVars, restVars>>
    \/ \E w \in Waiters : OpenFileReturns(w) /\ UNCHANGED <<regVars, rsVars, edVars, sessVars, restVars>>

SpecLsp == LspInit /\ [][LspNext]_vars

\* The events of one token, in order.
EventsOf(token) == SelectSeq(events, LAMBDA e : e.token = token)
\* The notifications of one stage with a given flag.
Notified(stage, flag) ==
    Len(SelectSeq(lspOut, LAMBDA n : n.stage = stage /\ n.is_indexing = flag))
CountKind(es, kind) == Len(SelectSeq(es, LAMBDA e : e.kind = kind))

\* The events of a token are begin, any number of reports, end.
CompleteRun(es) ==
    /\ Len(es) >= 2
    /\ es[1].kind = "Begin"
    /\ es[Len(es)].kind = "End"
    /\ \A i \in 2..(Len(es) - 1) : es[i].kind = "Report"

\* C3 as stated: begin(X), report(X)..., end(X) causes exactly one notification
\* with is_indexing=true and exactly one with is_indexing=false for stage X
\* (X ranging over the stages the handler tracks; the other tokens are C4's).
C3_OneTrueOneFalse ==
    \A t \in Tokens :
        (IsIndexingToken(t) /\ CompleteRun(EventsOf(t)))
            => Notified(StageOf(t), TRUE) = 1 /\ Notified(StageOf(t), FALSE) = 1

\* C3 amended: for a tracked stage token X, begin(X), n reports, end(X) causes
\* exactly n + 1 notifications with is_indexing=true (the begin and every report
\* emit one) and exactly one with is_indexing=false.
C3_TrueperEventOneFalse ==
    \A t \in Tokens :
        (IsIndexingToken(t) /\ CompleteRun(EventsOf(t)))
            => /\ Notified(StageOf(t), TRUE) = 1 + CountKind(EventsOf(t), "Report")
               /\ Notified(StageOf(t), FALSE) = 1

\* A tracked stage has run begin, report, end.
C3_Witness ==
    \E t \in Tokens :
        /\ IsIndexingToken(t)
        /\ CompleteRun(EventsOf(t))
        /\ CountKind(EventsOf(t), "Report") = 1

\* C4: an event whose token is not a known stage token is mapped to
\* Unknown(token) and still emits: one is_indexing=true notification per begin or
\* report event and one is_indexing=false notification per end event.
C4_UnknownTokenNotifies ==
    \A t \in Tokens :
        ~IsIndexingToken(t)
            => /\ StageOf(t).kind = "Unknown"
               /\ Notified(StageOf(t), TRUE)
                    = CountKind(EventsOf(t), "Begin") + CountKind(EventsOf(t), "Report")
               /\ Notified(StageOf(t), FALSE) = CountKind(EventsOf(t), "End")

\* C5: the completion signal is single-use: over the life of the session at most
\* one signal is delivered and at most one waiter is released.
C5_SingleUseSignal == indexedSent <= 1 /\ Cardinality(released) <= 1

-----------------------------------------------------------------------------
(***************************************************************************)
(* Symbol resolver: resolve_symbol_in_project, deduplicate_symbols,        *)
(* choose_best_symbol, calculate_symbol_score.                             *)
(***************************************************************************)

\* Longest workspace-symbol response.
MaxSyms == 3

\* File paths of symbol locations; NoPath is a location whose URI is not a file
\* URI (uri.to_file_path() fails).
NoPath == <<>>
PathLib == <<"/","p","/","s","r","c","/","l","i","b",".","r","s">>
PathAMod == <<"/","p","/","s","r","c","/","a","/","m","o","d",".","r","s">>
PathBMod == <<"/","p","/","S","R","C","/","b","/","m","o","d",".","r","s">>
PathTest == <<"/","p","/","t","e","s","t","s","/","a",".","r","s">>

\* SymbolInformation { name, kind, location }
Sym(name, kind, path) == [name |-> name, kind |-> kind, path |-> path]
NoSym == Sym("", "", NoPath)

Cands == {Sym("Foo", "Struct", PathLib), Sym("Foo", "Struct", PathAMod),
          Sym("Foo", "Struct", PathBMod), Sym("Foo", "Function", PathAMod),
          Sym("Foo", "Function", PathTest), Sym("Bar", "Struct", PathBMod),
          Sym("Foo", "Struct", NoPath)}

\* An item of the response: location is OneOf::Left(Location) or, in a nested
\* response only, OneOf::Right(uri without a range).
Item(sym, loc) == [name |-> sym.name, kind |-> sym.kind, path |-> sym.path, loc |-> loc]
FlatItems == {Item(c, "Left") : c \in Cands}
NestedItems == FlatItems \cup {Item(Sym("Foo", "Struct", PathLib), "Right")}

\* file_hint: Option<&str>
NoHint == [some |-> FALSE, text |-> <<>>]
SomeHint(text) == [some |-> TRUE, text |-> text]
Hints == {NoHint, SomeHint(<<"m","o","d",".","r","s">>),
          SomeHint(<<"a","/","m","o","d",".","r","s">>), SomeHint(<<"z","z">>)}

SeqsUpTo(S, n) == UNION {[1..k -> S] : k \in 0..n}

\* The outcome of project.lsp.workspace_symbols(name).await: Err(e), Ok(None),
\* Ok(Some(Flat(symbols))) or Ok(Some(Nested(workspace_symbols))).
Response(shape, items) == [shape |-> shape, items |-> items]
Responses ==
    {Response("Err", <<>>), Response("None", <<>>)}
        \cup {Response("Flat", is) : is \in SeqsUpTo(FlatItems, MaxSyms)}
        \cup {Response("Nested", is) : is \in SeqsUpTo(NestedItems, MaxSyms)}

\* The flat list resolve works on: unwrap_or(Flat(vec![])), and for a nested
\* response the filter_map that keeps the items with a Location.
RECURSIVE KeepLeft(_)
KeepLeft(items) ==
    IF items = <<>> THEN <<>>
    ELSE IF items[1].loc = "Left"
         THEN <<Sym(items[1].name, items[1].kind, items[1].path)>> \o KeepLeft(Tail(items))
         ELSE KeepLeft(Tail(items))

Normalize(resp) == IF resp.shape \in {"Err", "None"} THEN <<>> ELSE KeepLeft(resp.items)

\* calculate_symbol_score
Score(sym) ==
    IF sym.path = NoPath THEN 0
    ELSE LET path_str == ToLower(sym.path)
             src == IF Contains(path_str, <<"/","s","r","c","/">>)
                       \/ Contains(path_str, <<"\\","s","r","c","\\">>)
                    THEN 50 ELSE 0
             test == IF Contains(path_str, <<"t","e","s","t">>)
                        \/ Contains(path_str, <<"s","p","e","c">>)
                     THEN 30 ELSE 0
             gen == IF Contains(path_str, <<"g","e","n","e","r","a","t","e","d">>)
                       \/ Contains(path_str, <<"b","u","i","l","d">>)
                       \/ Contains(path_str, <<"t","a","r","g","e","t">>)
                    THEN 40 ELSE 0
             ext == IF \/ EndsWith(path_str, <<".","r","s">>)
                       \/ EndsWith(path_str, <<".","t","s">>)
                       \/ EndsWith(path_str, <<".","j","s">>)
                       \/ EndsWith(path_str, <<".","p","y">>)
                       \/ EndsWith(path_str, <<".","j","a","v","a">>)
                       \/ EndsWith(path_str, <<".","c","p","p">>)
                       \/ EndsWith(path_str, <<".","c">>)
                       \/ EndsWith(path_str, <<".","h">>)
                    THEN 20 ELSE 0
             path_depth == CountChar(path_str, "/") + CountChar(path_str, "\\")
             entry == IF EndsWith(path_str, <<"l","i","b",".","r","s">>)
                         \/ EndsWith(path_str, <<"m","a","i","n",".","r","s">>)
                      THEN 30
                      ELSE IF EndsWith(path_str, <<"m","o","d",".","r","s">>) THEN 10 ELSE 0
         IN 100 + src - test - gen + ext - path_depth * 2 + entry

\* A comparison that lets a later member with an equal score win.
BetterOrEqual(score, best_score) == score >= best_score
\* The comparison by which a later member of a group replaces the best so far.
Better(score, best_score) == score > best_score

\* choose_best_symbol: the loop over symbols[1..], given the best so far.
RECURSIVE BestFrom(_, _)
BestFrom(best, rest) ==
    IF rest = <<>> THEN best
    ELSE IF Better(Score(rest[1]), Score(best)) THEN BestFrom(rest[1], Tail(rest))
    ELSE BestFrom(best, Tail(rest))

ChooseBest(group) == BestFrom(group[1], Tail(group))

\* deduplicate_symbols: the key format!("{}-{:?}", name, kind) of a symbol
\* (no kind's Debug text holds a '-', so the text identifies the pair).
KeyOf(sym) == <<sym.name, sym.kind>>
GroupKeys(symbols) == {KeyOf(symbols[i]) : i \in DOMAIN symbols}
\* The Vec of one key, in push order.
GroupOf(symbols, key) == SelectSeq(symbols, LAMBDA x : KeyOf(x) = key)

\* The orders in which symbol_groups.into_iter() may yield the keys.
Orders(keys) ==
    {o \in [1..Cardinality(keys) -> keys] : \A i, j \in DOMAIN o : o[i] = o[j] => i = j}

\* deduplicate_symbols, for one iteration order of the map.
Dedup(symbols, order) ==
    [i \in DOMAIN order |->
        LET group == GroupOf(symbols, order[i])
        IN IF Len(group) = 1 THEN group[1] ELSE ChooseBest(group)]

\* The test the hint loop applies to one deduplicated symbol.
HintMatches(sym, hint) ==
    /\ sym.path # NoPath
    /\ PathEndsWith(sym.path, hint) \/ Contains(sym.path, hint)

\* The hint loop: the first deduplicated symbol that matches, in iteration order.
FirstMatch(dedup, hint) ==
    LET hits == SelectSeq(dedup, LAMBDA x : HintMatches(x, hint))
    IN IF hits = <<>> THEN <<>> ELSE <<hits[1]>>

\* An enumeration of everything the query returned.
AmbiguousListAll(symbols, dedup) == symbols
\* The candidates line of the ambiguity error: one entry per deduplicated symbol
\* whose URI is a file path.
AmbiguousList(symbols, dedup) == SelectSeq(dedup, LAMBDA x : x.path # NoPath)

Result(tag, sym, list) == [tag |-> tag, sym |-> sym, list |-> list]
NotCalled == Result("NotCalled", NoSym, <<>>)

\* A resolver that applies the hint to a single result too.
ResolveOneHinted(sym, hint) ==
    IF hint.some /\ ~HintMatches(sym, hint.text)
    THEN Result("NotFound", NoSym, <<>>) ELSE Result("Ok", sym, <<>>)
\* What resolve returns for a list of exactly one symbol.
ResolveOne(sym, hint) == Result("Ok", sym, <<>>)

\* resolve_symbol_in_project after deduplication.
ResolveMany(symbols, dedup, hint) ==
    IF Len(dedup) = 1 THEN Result("Ok", dedup[1], <<>>)
    ELSE LET hit == IF hint.some THEN FirstMatch(dedup, hint.text) ELSE <<>>
         IN IF hit # <<>> THEN Result("Ok", hit[1], <<>>)
            ELSE Result("Ambiguous", NoSym, AmbiguousList(symbols, dedup))

RsInit ==
    /\ rsInput \in [resp : Responses, hint : Hints]
    /\ rsDedup = <<>>
    /\ rsResult = NotCalled
    /\ RegInitVals
    /\ lspOut = <<>> /\ indexedQ = 0 /\ indexedSent = 0
    /\ released = {} /\ waiting = {} /\ events = <<>>
    /\ EdIdle
    /\ SessIdle
    /\ RestIdle

\* resolve_symbol_in_project(project, symbol_name, file_hint)
Resolve ==
    /\ rsResult = NotCalled
    /\ LET symbols == Normalize(rsInput.resp)
       IN IF rsInput.resp.shape = "Err"
          THEN rsResult' = Result("LspError", NoSym, <<>>) /\ rsDedup' = <<>>
          ELSE IF symbols = <<>>
          THEN rsResult' = Result("NotFound", NoSym, <<>>) /\ rsDedup' = <<>>
          ELSE IF Len(symbols) = 1
          THEN rsResult' = ResolveOne(symbols[1], rsInput.hint) /\ rsDedup' = <<>>
          ELSE \E order \in Orders(GroupKeys(symbols)) :
                  /\ rsDedup' = Dedup(symbols, order)
                  /\ rsResult' = ResolveMany(symbols, rsDedup', rsInput.hint)
    /\ UNCHANGED rsInput

RsNext == Resolve /\ UNCHANGED <<regVars, lspVars, edVars, sessVars, restVars>>

SpecResolve == RsInit /\ [][RsNext]_vars

\* The flat list of the call, its hint, and whether the call has returned.
RsSymbols == Normalize(rsInput.resp)
RsReturned == rsResult.tag \notin {"NotCalled", "LspError"}
\* No hint resolves the candidates: none was supplied, or it matches none of them.
NoHintResolves ==
    \/ ~rsInput.hint.some
    \/ \A i \in DOMAIN RsSymbols : ~HintMatches(RsSymbols[i], rsInput.hint.text)
\* The deduplicated candidates the hint matches.
HintHits == {i \in DOMAIN rsDedup : HintMatches(rsDedup[i], rsInput.hint.text)}

\* C6: with more than one candidate left after deduplication and a hint supplied,
\* resolve returns a candidate only if exactly one remaining candidate matches
\* the hint; when two or more match, the result is Ambiguous.
C6_HintNeverGuesses ==
    (RsReturned /\ Len(rsDedup) > 1 /\ rsInput.hint.some)
        => /\ rsResult.tag = "Ok" => Cardinality(HintHits) = 1
           /\ Cardinality(HintHits) >= 2 => rsResult.tag = "Ambiguous"

C8_ZeroOrOne ==
    RsReturned
        => /\ Len(RsSymbols) = 0 => rsResult = Result("NotFound", NoSym, <<>>)
           /\ Len(RsSymbols) = 1 => rsResult = Result("Ok", RsSymbols[1], <<>>)

\* A single result was returned although the hint does not match its path.
C8_Witness ==
    /\ rsResult.tag = "Ok"
    /\ Len(RsSymbols) = 1
    /\ rsInput.hint.some
    /\ ~HintMatches(RsSymbols[1], rsInput.hint.text)

\* The members of a group, by position in the query result, and the first of
\* those with the highest score.
Members(key) == {j \in DOMAIN RsSymbols : KeyOf(RsSymbols[j]) = key}
TopScore(key) == CHOOSE m \in {Score(RsSymbols[j]) : j \in Members(key)} :
                    \A j \in Members(key) : Score(RsSymbols[j]) <= m
FirstTop(key) == CHOOSE j \in Members(key) :
                    /\ Score(RsSymbols[j]) = TopScore(key)
                    /\ \A l \in Members(key) : Score(RsSymbols[l]) = TopScore(key) => j <= l

\* C9: deduplication returns exactly one candidate per distinct (name, kind)
\* group: a member with the highest score of its group, the first seen among the
\* members that share it.
C9_DedupFirstBest ==
    (RsReturned /\ Len(RsSymbols) > 1)
        => /\ Len(rsDedup) = Cardinality(GroupKeys(RsSymbols))
           /\ \A k \in GroupKeys(RsSymbols) :
                 Cardinality({i \in DOMAIN rsDedup : KeyOf(rsDedup[i]) = k}) = 1
           /\ \A i \in DOMAIN rsDedup : rsDedup[i] = RsSymbols[FirstTop(KeyOf(rsDedup[i]))]

\* Two different members of one group share the highest score, behind a member
\* with a lower one, and deduplication has run.
C9_Witness ==
    /\ RsReturned
    /\ \E k \in GroupKeys(RsSymbols) :
          \E j \in Members(k) :
             /\ j > FirstTop(k)
             /\ FirstTop(k) > 1
             /\ Score(RsSymbols[j]) = TopScore(k)
             /\ RsSymbols[j] # RsSymbols[FirstTop(k)]
             /\ 1 \in Members(k)

\* What a second call with the same response and hint returns when its map of
\* groups iterates in the given order.
SecondCall(order) == ResolveMany(RsSymbols, Dedup(RsSymbols, order), rsInput.hint)

\* C40: resolve is deterministic: whatever a call returned, a second call given
\* the same workspace-symbol result list and the same file hint returns the same
\* candidate, or the same error with the candidates in the same order.
C40_Deterministic ==
    (RsReturned /\ Len(RsSymbols) > 1)
        => \A order \in Orders(GroupKeys(RsSymbols)) : SecondCall(order) = rsResult

\* The same for the lists that deduplicate to a single candidate.
C40_SingleGroupDeterministic ==
    (RsReturned /\ Len(RsSymbols) > 1 /\ Cardinality(GroupKeys(RsSymbols)) = 1)
        => \A order \in Orders(GroupKeys(RsSymbols)) : SecondCall(order) = rsResult

-----------------------------------------------------------------------------
(***************************************************************************)
(* Edit applier: apply_edits_to_file and its pos_to_offset closure.        *)
(* A file content is a sequence of characters; "NL" is the line feed and   *)
(* "E2" a character of two UTF-8 bytes, every other one has one byte.      *)
(***************************************************************************)

\* Longest file content, in characters.
MaxLen == 3

FileChars == {"a", "E2", "NL"}
Contents == SeqsUpTo(FileChars, MaxLen)

\* char::len_utf8
LenUtf8(c) == IF c = "E2" THEN 2 ELSE 1
\* str::len, in bytes
RECURSIVE ByteLen(_)
ByteLen(s) == IF s = <<>> THEN 0 ELSE LenUtf8(s[1]) + ByteLen(Tail(s))

\* lsp_types::Position and Range, TextEdit { range, new_text }
Pos(line, character) == [line |-> line, character |-> character]
Positions == {Pos(0, 0), Pos(0, 1), Pos(1, 0)}
NewTexts == {<<>>, <<"X">>}
TextEdit(start, end, new_text) == [start |-> start, end |-> end, new_text |-> new_text]
Edits == {TextEdit(s, e, t) : s \in Positions, e \in Positions, t \in NewTexts}
\* The batches of one file: up to three edits.
Batches == {<<>>} \cup {<<e>> : e \in Edits} \cup (Edits \X Edits) \cup (Edits \X Edits \X Edits)

\* The pieces of a text between line feeds, the one after the last included.
RECURSIVE SplitNL(_)
SplitNL(s) ==
    IF s = <<>> THEN <<(<<>>)>>
    ELSE LET rest == SplitNL(Tail(s))
         IN IF s[1] = "NL" THEN <<(<<>>)>> \o rest
            ELSE <<(<<s[1]>> \o rest[1])>> \o Tail(rest)

\* A piece that a line feed ended, without the carriage return before it.
StripCR(p) == IF p # <<>> /\ p[Len(p)] = "CR" THEN SubSeq(p, 1, Len(p) - 1) ELSE p

\* str::lines: the pieces, each without the carriage return its line feed
\* followed, and without the empty piece after a final line feed.
Lines(s) ==
    LET raw == SplitNL(s)
        n == Len(raw)
        pieces == [i \in 1..n |-> IF i < n THEN StripCR(raw[i]) ELSE raw[i]]
    IN IF pieces[n] = <<>> THEN SubSeq(pieces, 1, n - 1) ELSE pieces

\* No offset (pos_to_offset returned None).
NoOffset == -1

\* pos_to_offset, the loop from line i on with the offset so far.
RECURSIVE OffsetFrom(_, _, _, _)
OffsetFrom(lines, i, offset, pos) ==
    IF i > Len(lines) THEN NoOffset
    ELSE IF i - 1 = pos.line
         THEN IF pos.character <= Len(lines[i])
              THEN offset + ByteLen(SubSeq(lines[i], 1, pos.character))
              ELSE NoOffset
         ELSE OffsetFrom(lines, i + 1, offset + ByteLen(lines[i]) + 1, pos)

PosToOffset(pos, content) == OffsetFrom(Lines(content), 1, 0, pos)

\* Position's derived ordering: by line, then by character.
PosLess(p, q) == p.line < q.line \/ (p.line = q.line /\ p.character < q.character)

\* sorted_edits.sort_by(|a, b| b.range.start.cmp(&a.range.start)): a stable sort
\* by descending start, as insertion of each edit behind the edits that do not
\* start before it.
RECURSIVE InsertEdit(_, _)
InsertEdit(sorted, e) ==
    IF sorted = <<>> THEN <<e>>
    ELSE IF PosLess(sorted[1].start, e.start) THEN <<e>> \o sorted
    ELSE <<sorted[1]>> \o InsertEdit(Tail(sorted), e)

RECURSIVE SortEdits(_)
SortEdits(edits) ==
    IF edits = <<>> THEN <<>>
    ELSE InsertEdit(SortEdits(SubSeq(edits, 1, Len(edits) - 1)), edits[Len(edits)])

\* The number of leading characters of s that make up exactly off bytes, or -1
\* when off is not on a character boundary of s.
CharsBefore(s, off) ==
    LET fits == {i \in 0..Len(s) : ByteLen(SubSeq(s, 1, i)) = off}
    IN IF fits = {} THEN -1 ELSE CHOOSE i \in fits : TRUE

\* What one step of the loop over sorted_edits does to the in-memory content.
Applied(status, content) == [status |-> status, content |-> content]

\* The test of one edit's offsets against the in-memory content.
RangeOk(start_offset, end_offset, content) ==
    start_offset <= end_offset /\ end_offset <= ByteLen(content)

\* The loop over sorted_edits: offsets are taken in original_content, the range
\* test and String::replace_range (which panics off a character boundary) act on
\* the in-memory content.
RECURSIVE ApplyLoop(_, _, _)
ApplyLoop(content, original, edits) ==
    IF edits = <<>> THEN Applied("Ok", content)
    ELSE LET start_offset == PosToOffset(edits[1].start, original)
             end_offset == PosToOffset(edits[1].end, original)
         IN IF start_offset = NoOffset \/ end_offset = NoOffset
            THEN Applied("NoOffset", content)
            ELSE IF ~RangeOk(start_offset, end_offset, content)
            THEN Applied("InvalidRange", content)
            ELSE LET i == CharsBefore(content, start_offset)
                     j == CharsBefore(content, end_offset)
                 IN IF i = -1 \/ j = -1 THEN Applied("Panic", content)
                    ELSE ApplyLoop(SubSeq(content, 1, i) \o edits[1].new_text
                                       \o SubSeq(content, j + 1, Len(content)),
                                   original, Tail(edits))

EdInit ==
    /\ edInput \in [content : Contents, edits : Batches]
    /\ disk = edInput.content
    /\ edResult = "NotCalled"
    /\ nWrites = 0
    /\ RegInitVals
    /\ lspOut = <<>> /\ indexedQ = 0 /\ indexedSent = 0
    /\ released = {} /\ waiting = {} /\ events = <<>>
    /\ RsIdle
    /\ SessIdle
    /\ RestIdle

\* apply_edits_to_file(path, edits): fs::write is reached only when the loop ran
\* through.
ApplyEdits ==
    /\ edResult = "NotCalled"
    /\ LET original_content == disk
           r == ApplyLoop(original_content, original_content, SortEdits(edInput.edits))
       IN /\ edResult' = r.status
          /\ disk' = IF r.status = "Ok" THEN r.content ELSE disk
          /\ nWrites' = IF r.status = "Ok" THEN nWrites + 1 ELSE nWrites
    /\ UNCHANGED edInput

EdNext == ApplyEdits /\ UNCHANGED <<regVars, lspVars, rsVars, sessVars, restVars>>

SpecEdit == EdInit /\ [][EdNext]_vars

\* An edit of the batch cannot be converted to offsets in the file's content, or
\* its offsets violate start <= end <= content length.
InvalidEdit(e, content) ==
    LET so == PosToOffset(e.start, content)
        eo == PosToOffset(e.end, content)
    IN so = NoOffset \/ eo = NoOffset \/ ~(so <= eo /\ eo <= ByteLen(content))

\* C10: if any edit of the batch cannot be converted to offsets or violates
\* start <= end <= content length, apply returns an error and the file is not
\* written; a file is written at most once, and only after every edit succeeded.
C10_InvalidBatchReturnsError ==
    edResult # "NotCalled"
        => /\ (\E i \in DOMAIN edInput.edits : InvalidEdit(edInput.edits[i], edInput.content))
                => /\ edResult \in {"NoOffset", "InvalidRange"}
                   /\ disk = edInput.content
                   /\ nWrites = 0
           /\ nWrites <= 1
           /\ nWrites = 1 => edResult = "Ok"

\* The part of C10 that is about the file: a batch with an invalid edit leaves the
\* file as it was and unwritten, and a write happens once, after a full pass.
C10_InvalidBatchNotWritten ==
    edResult # "NotCalled"
        => /\ (\E i \in DOMAIN edInput.edits : InvalidEdit(edInput.edits[i], edInput.content))
                => edResult # "Ok" /\ disk = edInput.content /\ nWrites = 0
           /\ nWrites <= 1
           /\ nWrites = 1 => edResult = "Ok"

\* A set as a sequence, in some order.
RECURSIVE SetToSeq(_)
SetToSeq(S) == IF S = {} THEN <<>> ELSE LET x == CHOOSE y \in S : TRUE IN <<x>> \o SetToSeq(S \ {x})

\* The batch in every order it can be supplied in.
Perms(edits) ==
    {[i \in 1..Len(edits) |-> edits[f[i]]] :
        f \in {g \in [1..Len(edits) -> 1..Len(edits)] :
                  \A i, j \in 1..Len(edits) : g[i] = g[j] => i = j}}

\* What apply_edits_to_file makes of the content for a batch: the outcome and the
\* content the file has afterwards.
Outcome(content, edits) ==
    LET r == ApplyLoop(content, content, SortEdits(edits))
    IN Applied(r.status, IF r.status = "Ok" THEN r.content ELSE content)

\* Two edits of one file overlap when their byte ranges in the content share a
\* byte; an empty range shares none.
Overlap(e1, e2, content) ==
    /\ PosToOffset(e1.start, content) < PosToOffset(e2.end, content)
    /\ PosToOffset(e2.start, content) < PosToOffset(e1.end, content)

\* A batch of valid, pairwise non-overlapping edits of the content.
ValidBatch(edits, content) ==
    /\ \A i \in DOMAIN edits : ~InvalidEdit(edits[i], content)
    /\ \A i, j \in DOMAIN edits : i # j => ~Overlap(edits[i], edits[j], content)

\* The edits by ascending range, those with the same range in the order given.
RECURSIVE InsertAsc(_, _, _)
InsertAsc(sorted, e, content) ==
    IF sorted = <<>> THEN <<e>>
    ELSE IF \/ PosToOffset(e.start, content) < PosToOffset(sorted[1].start, content)
            \/ /\ PosToOffset(e.start, content) = PosToOffset(sorted[1].start, content)
               /\ PosToOffset(e.end, content) < PosToOffset(sorted[1].end, content)
         THEN <<e>> \o sorted
         ELSE <<sorted[1]>> \o InsertAsc(Tail(sorted), e, content)

RECURSIVE SortAsc(_, _)
SortAsc(edits, content) ==
    IF edits = <<>> THEN <<>>
    ELSE InsertAsc(SortAsc(SubSeq(edits, 1, Len(edits) - 1), content),
                   edits[Len(edits)], content)

\* The content with the range of every edit replaced by the edit's text: the
\* stretches of the content between the ranges, from character k on, with the
\* texts in between.
RECURSIVE SpliceFrom(_, _, _)
SpliceFrom(content, k, ascending) ==
    IF ascending = <<>> THEN SubSeq(content, k + 1, Len(content))
    ELSE LET i == CharsBefore(content, PosToOffset(ascending[1].start, content))
             j == CharsBefore(content, PosToOffset(ascending[1].end, content))
         IN SubSeq(content, k + 1, i) \o ascending[1].new_text
                \o SpliceFrom(content, j, Tail(ascending))

Splice(content, edits) == SpliceFrom(content, 0, SortAsc(edits, content))

\* C11: for valid, pairwise non-overlapping edits the applied result does not
\* depend on the order the edits were supplied in, and it is the content with
\* each edit's range replaced by the edit's text.
C11_OrderIndependentSplice ==
    (edResult # "NotCalled" /\ ValidBatch(edInput.edits, edInput.content))
        => /\ edResult = "Ok"
           /\ \A p \in Perms(edInput.edits) :
                  Outcome(edInput.content, p) = Applied(edResult, disk)
           /\ \E p \in Perms(edInput.edits) : disk = Splice(edInput.content, p)

\* The same for batches in which no two edits start at the same offset: there
\* the descending order of the starts is the order of application whatever the
\* order of supply.
C11_DistinctStartsSplice ==
    (/\ edResult # "NotCalled"
     /\ ValidBatch(edInput.edits, edInput.content)
     /\ \A i, j \in DOMAIN edInput.edits :
            i # j => PosToOffset(edInput.edits[i].start, edInput.content)
                        # PosToOffset(edInput.edits[j].start, edInput.content))
        => /\ edResult = "Ok"
           /\ \A p \in Perms(edInput.edits) :
                  Outcome(edInput.content, p) = Applied(edResult, disk)
           /\ disk = Splice(edInput.content, edInput.edits)

\* C12: apply does not write a file from a batch in which the ranges of two
\* edits of that file overlap.
C12_OverlapNotWritten ==
    (/\ edResult # "NotCalled"
     /\ \E i, j \in DOMAIN edInput.edits :
            /\ i # j
            /\ ~InvalidEdit(edInput.edits[i], edInput.content)
            /\ ~InvalidEdit(edInput.edits[j], edInput.content)
            /\ Overlap(edInput.edits[i], edInput.edits[j], edInput.content))
        => nWrites = 0 /\ disk = edInput.content

-----------------------------------------------------------------------------
(***************************************************************************)
(* Language-server sessions: RustAnalyzerLsp::new (handshake inside         *)
(* construction), the request operations behind the server mutex,          *)
(* RustAnalyzerLsp::shutdown and Context::shutdown_all.                    *)
(* The subprocess is modelled by what it was sent (wire), whether it runs, *)
(* and the I/O loop task (mainloop) that ends when the subprocess exits.   *)
(* A request on a socket whose I/O loop has ended fails without reaching   *)
(* the subprocess.                                                         *)
(***************************************************************************)

\* Request and direct shutdown calls started in one behaviour.
MaxCalls == 2

Sessions == {"s1", "s2"}
\* Callers of hover / find_references / workspace_symbols / code_actions / rename.
ReqCallers == {"q1", "q2"}
\* Callers of shutdown: shutdown_all ("sa") and a direct caller of the method.
ShutCallers == {"sa", "x"}
SessTasks == ReqCallers \cup ShutCallers

NoSession == "-"
Free == "free"

\* A RustAnalyzerLsp before RustAnalyzerLsp::new.
NewSession ==
    [state |-> "none", proc |-> "none", mainloop |-> "none", handle |-> "None",
     lock |-> Free, hlock |-> Free, wire |-> <<>>, inflight |-> {}]

NoCall == [s |-> NoSession, res |-> "none", steps |-> <<>>]
IdleTask == [pc |-> "idle", s |-> NoSession, steps |-> <<>>, last |-> NoCall]

\* add_project inserts the session only when RustAnalyzerLsp::new returned Ok
\* (the ? on its result).
RegistersOnFailure(outcome) == TRUE
Registers(outcome) == outcome = "Ok"

\* self.server.lock().await: the caller goes on when no one holds the mutex.
LockFreeAlways(s) == TRUE
LockFree(s) == sess[s].lock = Free

\* handle.await: the caller goes on when the I/O loop task has ended.
JoinedAlways(s) == TRUE
Joined(s) == sess[s].mainloop = "finished"

\* shutdown_all after a failed shutdown: the error is logged and the loop goes
\* on with the next entry.
AfterErrorAbort(todo) == <<>>
AfterError(todo) == Tail(todo)

SessInit ==
    /\ sess = [s \in Sessions |-> NewSession]
    /\ registered = {}
    /\ hung \in {{}} \cup {{s} : s \in Sessions}
    /\ sTasks = [t \in SessTasks |-> IdleTask]
    /\ nReq = 0
    /\ saTodo = <<>>
    /\ saRes = [s \in Sessions |-> "none"]
    /\ saLog = {}
    /\ RegInitVals
    /\ lspOut = <<>> /\ indexedQ = 0 /\ indexedSent = 0
    /\ released = {} /\ waiting = {} /\ events = <<>>
    /\ RsIdle
    /\ EdIdle
    /\ RestIdle

\* RustAnalyzerLsp::new up to the initialize request: the subprocess is spawned,
\* the I/O loop task started and initialize sent; or the spawn fails and new
\* returns the error.
New(s) ==
    /\ sess[s].state = "none"
    /\ \/ /\ sess' = [sess EXCEPT ![s] =
                        [NewSession EXCEPT !.state = "init", !.proc = "running",
                                           !.mainloop = "running", !.handle = "Some",
                                           !.wire = <<"initialize">>]]
          /\ UNCHANGED registered
       \/ /\ sess' = [sess EXCEPT ![s].state = "failed"]
          /\ registered' = IF Registers("Err") THEN registered \cup {s} ELSE registered
    /\ UNCHANGED <<hung, sTasks, nReq, saTodo, saRes, saLog>>

\* The rest of RustAnalyzerLsp::new and add_project's insert: the initialize
\* response arrives, initialized is sent, new returns Ok(client) and the session
\* is inserted; or initialize fails and new returns the error.
Handshake(s) ==
    /\ sess[s].state = "init"
    /\ \/ /\ sess' = [sess EXCEPT ![s].state = "ready",
                                  ![s].wire = Append(@, "initialized")]
          /\ registered' = IF Registers("Ok") THEN registered \cup {s} ELSE registered
       \/ /\ sess' = [sess EXCEPT ![s].state = "failed"]
          /\ registered' = IF Registers("Err") THEN registered \cup {s} ELSE registered
    /\ UNCHANGED <<hung, sTasks, nReq, saTodo, saRes, saLog>>

\* A tool handler got the session from the registry and calls a request
\* operation on it: it queues on the server mutex.
Call(q, s) ==
    /\ sTasks[q].pc = "idle"
    /\ s \in registered
    /\ nReq < MaxCalls
    /\ nReq' = nReq + 1
    /\ sTasks' = [sTasks EXCEPT ![q].pc = "lock", ![q].s = s]
    /\ UNCHANGED <<sess, registered, hung, saTodo, saRes, saLog>>

\* self.server.lock().await.request(..): with the mutex, the request is written
\* to the subprocess; on a stopped I/O loop it fails at once.
Acquire(q) ==
    /\ sTasks[q].pc = "lock"
    /\ LET s == sTasks[q].s
       IN /\ LockFree(s)
          /\ IF sess[s].mainloop = "running"
             THEN /\ sess' = [sess EXCEPT ![s].lock = q,
                                          ![s].wire = Append(@, "request"),
                                          ![s].inflight = @ \cup {q}]
                  /\ sTasks' = [sTasks EXCEPT ![q].pc = "await"]
             ELSE /\ sTasks' = [sTasks EXCEPT ![q].pc = "idle", ![q].s = NoSession]
                  /\ UNCHANGED sess
    /\ UNCHANGED <<registered, hung, nReq, saTodo, saRes, saLog>>

\* The response arrives (or the I/O loop ended meanwhile and the request fails);
\* the guard is dropped when the operation returns.
Respond(q) ==
    /\ sTasks[q].pc = "await"
    /\ LET s == sTasks[q].s
       IN /\ sess[s].proc = "running" \/ sess[s].mainloop = "finished"
          /\ sess' = [sess EXCEPT ![s].lock = IF @ = q THEN Free ELSE @,
                                  ![s].inflight = @ \ {q}]
          /\ sTasks' = [sTasks EXCEPT ![q].pc = "idle", ![q].s = NoSession]
    /\ UNCHANGED <<registered, hung, nReq, saTodo, saRes, saLog>>

\* shutdown_all starts: for entry in self.projects.iter(), in the order the map
\* yields its entries; with no entry it is done at once.
ShutdownAllStart ==
    /\ sTasks["sa"].pc = "idle"
    /\ \E order \in Perms(SetToSeq(registered)) :
          /\ saTodo' = order
          /\ saRes' = [s \in Sessions |-> IF s \in registered THEN "todo" ELSE "none"]
          /\ sTasks' = [sTasks EXCEPT !["sa"] =
                          IF order = <<>> THEN [IdleTask EXCEPT !.pc = "done"]
                          ELSE [IdleTask EXCEPT !.pc = "sd_req", !.s = order[1]]]
    /\ UNCHANGED <<sess, registered, hung, nReq, saLog>>

\* A caller other than shutdown_all calls shutdown on a registered session.
DirectShutdown(s) ==
    /\ sTasks["x"].pc = "idle"
    /\ s \in registered
    /\ nReq < MaxCalls
    /\ nReq' = nReq + 1
    /\ sTasks' = [sTasks EXCEPT !["x"].pc = "sd_req", !["x"].s = s, !["x"].steps = <<>>]
    /\ UNCHANGED <<sess, registered, hung, saTodo, saRes, saLog>>

\* shutdown returns res to its caller: the direct caller is idle again;
\* shutdown_all logs an error and goes on with the rest of its iteration.
SdReturn(t, res, steps) ==
    LET s == sTasks[t].s
        call == [s |-> s, res |-> res, steps |-> steps]
    IN IF t = "sa"
       THEN LET rest == IF res = "Err" THEN AfterError(saTodo) ELSE Tail(saTodo)
            IN /\ saRes' = [saRes EXCEPT ![s] = res]
               /\ saLog' = IF res = "Err" THEN saLog \cup {s} ELSE saLog
               /\ saTodo' = rest
               /\ sTasks' = [sTasks EXCEPT ![t] =
                               IF rest = <<>>
                               THEN [IdleTask EXCEPT !.pc = "done", !.last = call]
                               ELSE [IdleTask EXCEPT !.pc = "sd_req", !.s = rest[1],
                                                     !.last = call]]
       ELSE /\ sTasks' = [sTasks EXCEPT ![t] = [IdleTask EXCEPT !.last = call]]
            /\ UNCHANGED <<saTodo, saRes, saLog>>

\* self.server.lock().await.shutdown(()): with the mutex, the shutdown request
\* is written to the subprocess; on a stopped I/O loop the call returns Err.
SdSend(t) ==
    /\ sTasks[t].pc = "sd_req"
    /\ LET s == sTasks[t].s
       IN /\ LockFree(s)
          /\ IF sess[s].mainloop = "running"
             THEN /\ sess' = [sess EXCEPT ![s].lock = t,
                                          ![s].wire = Append(@, "shutdown"),
                                          ![s].inflight = @ \cup {t}]
                  /\ sTasks' = [sTasks EXCEPT ![t].pc = "sd_await",
                                              ![t].steps = <<"shutdown_sent">>]
                  /\ UNCHANGED <<saTodo, saRes, saLog>>
             ELSE /\ SdReturn(t, "Err", <<>>)
                  /\ UNCHANGED sess
    /\ UNCHANGED <<registered, hung, nReq>>

\* .await on the shutdown request: the subprocess answers, or the I/O loop ended
\* and the call returns Err; the guard is dropped with the statement.
SdAnswer(t) ==
    /\ sTasks[t].pc = "sd_await"
    /\ LET s == sTasks[t].s
       IN /\ sess[s].proc = "running" \/ sess[s].mainloop = "finished"
          /\ sess' = [sess EXCEPT ![s].lock = IF @ = t THEN Free ELSE @,
                                  ![s].inflight = @ \ {t}]
          /\ IF sess[s].proc = "running"
             THEN /\ sTasks' = [sTasks EXCEPT ![t].pc = "sd_exit",
                                              ![t].steps = Append(@, "shutdown_answered")]
                  /\ UNCHANGED <<saTodo, saRes, saLog>>
             ELSE SdReturn(t, "Err", sTasks[t].steps)
    /\ UNCHANGED <<registered, hung, nReq>>

\* self.server.lock().await.exit(()): the exit notification is written; on a
\* stopped I/O loop the call returns Err.
SdExit(t) ==
    /\ sTasks[t].pc = "sd_exit"
    /\ LET s == sTasks[t].s
       IN /\ LockFree(s)
          /\ IF sess[s].mainloop = "running"
             THEN /\ sess' = [sess EXCEPT ![s].wire = Append(@, "exit")]
                  /\ sTasks' = [sTasks EXCEPT ![t].pc = "sd_take",
                                              ![t].steps = Append(@, "exit_sent")]
                  /\ UNCHANGED <<saTodo, saRes, saLog>>
             ELSE /\ SdReturn(t, "Err", sTasks[t].steps)
                  /\ UNCHANGED sess
    /\ UNCHANGED <<registered, hung, nReq>>

\* self.mainloop_handle.lock().await.take(): with a handle the caller goes on to
\* await it, keeping the guard; without one shutdown returns Ok.
SdTake(t) ==
    /\ sTasks[t].pc = "sd_take"
    /\ LET s == sTasks[t].s
       IN /\ sess[s].hlock = Free
          /\ IF sess[s].handle = "Some"
             THEN /\ sess' = [sess EXCEPT ![s].handle = "None", ![s].hlock = t]
                  /\ sTasks' = [sTasks EXCEPT ![t].pc = "sd_join"]
                  /\ UNCHANGED <<saTodo, saRes, saLog>>
             ELSE /\ SdReturn(t, "Ok", Append(sTasks[t].steps, "no_handle"))
                  /\ UNCHANGED sess
    /\ UNCHANGED <<registered, hung, nReq>>

\* handle.await returns once the I/O loop task has ended; shutdown returns Ok.
SdJoin(t) ==
    /\ sTasks[t].pc = "sd_join"
    /\ LET s == sTasks[t].s
       IN /\ Joined(s)
          /\ sess' = [sess EXCEPT ![s].hlock = Free]
          /\ SdReturn(t, "Ok", Append(sTasks[t].steps, "joined"))
    /\ UNCHANGED <<registered, hung, nReq>>

\* The subprocess exits, after the exit notification or by itself, unless it is
\* one that never exits; its output ends and with it the I/O loop task.
ProcExit(s) ==
    /\ sess[s].proc = "running"
    /\ sess[s].state = "ready"
    /\ s \notin hung
    /\ sess' = [sess EXCEPT ![s].proc = "exited", ![s].mainloop = "finished"]
    /\ UNCHANGED <<registered, hung, sTasks, nReq, saTodo, saRes, saLog>>

SessNext ==
    \/ \E s \in Sessions : New(s) /\ UNCHANGED <<regVars, lspVars, rsVars, edVars, restVars>>
    \/ \E s \in Sessions : Handshake(s) /\ UNCHANGED <<regVars, lspVars, rsVars, edVars, restVars>>
    \/ \E q \in ReqCallers, s \in Sessions : Call(q, s) /\ UNCHANGED <<regVars, lspVars, rsVars, edVars, restVars>>
    \/ \E q \in ReqCallers : Acquire(q) /\ UNCHANGED <<regVars, lspVars, rsVars, edVars, restVars>>
    \/ \E q \in ReqCallers : Respond(q) /\ UNCHANGED <<regVars, lspVars, rsVars, edVars, restVars>>
    \/ ShutdownAllStart /\ UNCHANGED <<regVars, lspVars, rsVars, edVars, restVars>>
    \/ \E s \in Sessions : DirectShutdown(s) /\ UNCHANGED <<regVars, lspVars, rsVars, edVars, restVars>>
    \/ \E t \in ShutCallers : SdSend(t) /\ UNCHANGED <<regVars, lspVars, rsVars, edVars, restVars>>
    \/ \E t \in ShutCallers : SdAnswer(t) /\ UNCHANGED <<regVars, lspVars, rsVars, edVars, restVars>>
    \/ \E t \in ShutCallers : SdExit(t) /\ UNCHANGED <<regVars, lspVars, rsVars, edVars, restVars>>
    \/ \E t \in ShutCallers : SdTake(t) /\ UNCHANGED <<regVars, lspVars, rsVars, edVars, restVars>>
    \/ \E t \in ShutCallers : SdJoin(t) /\ UNCHANGED <<regVars, lspVars, rsVars, edVars, restVars>>
    \/ \E s \in Sessions : ProcExit(s) /\ UNCHANGED <<regVars, lspVars, rsVars, edVars, restVars>>

SpecSession == SessInit /\ [][SessNext]_vars

\* The tasks of the runtime and the subprocesses that do exit make progress.
SpecSessionFair == SessInit /\ [][SessNext]_vars /\ WF_vars(SessNext)

\* How often a message was written to the subprocess of a session.
Sent(s, m) == Cardinality({i \in DOMAIN sess[s].wire : sess[s].wire[i] = m})

\* C13: at most one request is in flight on a session at any time, the one of
\* the caller holding the session's mutex; a caller queued on a session with no
\* request in flight can start, whatever is in flight on the other sessions.
C13_OneRequestInFlight ==
    /\ \A s \in Sessions :
          /\ Cardinality(sess[s].inflight) <= 1
          /\ \A q \in sess[s].inflight : sess[s].lock = q
    /\ \A q \in ReqCallers :
          (sTasks[q].pc = "lock" /\ sess[sTasks[q].s].inflight = {}) => ENABLED Acquire(q)

\* A caller waits for the mutex of a session on which another caller's request
\* is in flight.
C13_Witness ==
    \E q1, q2 \in ReqCallers :
        /\ q1 # q2
        /\ sTasks[q1].pc = "await" /\ sTasks[q2].pc = "lock"
        /\ sTasks[q1].s = sTasks[q2].s
        /\ sess[sTasks[q1].s].inflight = {q1}

\* C14: nothing is requested of a session before its handshake completed: every
\* request, shutdown or exit written to a subprocess comes after initialized,
\* only sessions whose handshake succeeded are registered, and a session whose
\* handshake failed is not.
C14_HandshakeBeforeRequests ==
    \A s \in Sessions :
        /\ \A i \in DOMAIN sess[s].wire :
              sess[s].wire[i] \in {"request", "shutdown", "exit"}
                  => \E j \in 1..(i - 1) : sess[s].wire[j] = "initialized"
        /\ s \in registered => sess[s].state = "ready"
        /\ sess[s].state = "failed" => s \notin registered

\* One session failed its handshake and stayed unregistered while a request was
\* written to another.
C14_Witness ==
    \E s1, s2 \in Sessions :
        /\ sess[s1].state = "failed" /\ s1 \notin registered
        /\ Sent(s2, "request") > 0

\* C15: a second shutdown call on a session sends no second shutdown request and
\* no second exit notification to the subprocess.
C15_SecondShutdownSendsNothing ==
    \A s \in Sessions : Sent(s, "shutdown") <= 1 /\ Sent(s, "exit") <= 1

\* C16: shutdown does its steps in order (shutdown request sent and answered,
\* exit sent, then the wait for the I/O loop task), and a shutdown that returned
\* Ok returned after that task had ended.
C16_ShutdownInOrder ==
    \A t \in ShutCallers :
        /\ sTasks[t].steps \in {<<>>, <<"shutdown_sent">>,
                                <<"shutdown_sent", "shutdown_answered">>,
                                <<"shutdown_sent", "shutdown_answered", "exit_sent">>}
        /\ sTasks[t].pc = "sd_join" => sTasks[t].steps[Len(sTasks[t].steps)] = "exit_sent"
        /\ sTasks[t].last.res = "Ok"
              => /\ sTasks[t].last.steps \in
                        {<<"shutdown_sent", "shutdown_answered", "exit_sent", "joined">>,
                         <<"shutdown_sent", "shutdown_answered", "exit_sent", "no_handle">>}
                 /\ sess[sTasks[t].last.s].mainloop = "finished"

\* A shutdown returned Ok after waiting for the I/O loop task.
C16_Witness ==
    \E t \in ShutCallers :
        /\ sTasks[t].last.res = "Ok"
        /\ sTasks[t].last.steps[4] = "joined"

\* C17: if one session's subprocess never exits, shutdown_all still shuts down
\* every other registered session.
C17_OthersStillShutDown ==
    \A s \in Sessions :
        (saRes[s] = "todo" /\ hung # {} /\ s \notin hung) ~> (saRes[s] \in {"Ok", "Err"})

\* Without a subprocess that never exits, shutdown_all gets through every session
\* of its iteration.
C17_NoHangAllShutDown ==
    \A s \in Sessions : (saRes[s] = "todo" /\ hung = {}) ~> (saRes[s] \in {"Ok", "Err"})

\* C18: shutdown_all attempts every session of its iteration: a session not yet
\* shut down is still ahead in the iteration, so that once shutdown_all is done
\* shutdown has returned for each of them; and each error was logged.
C18_AllAttempted ==
    /\ \A s \in Sessions : (saRes[s] = "Err") <=> (s \in saLog)
    /\ \A s \in Sessions :
          saRes[s] = "todo"
              => /\ sTasks["sa"].pc # "done"
                 /\ s = sTasks["sa"].s \/ s \in {saTodo[i] : i \in DOMAIN saTodo}

\* shutdown_all is done; the shutdown of one session returned an error and the
\* session after it was shut down.
C18_Witness ==
    /\ sTasks["sa"].pc = "done"
    /\ \E s1, s2 \in Sessions :
          /\ saRes[s1] = "Err" /\ s1 \in saLog
          /\ saRes[s2] = "Ok" /\ sTasks["sa"].last.s = s2

-----------------------------------------------------------------------------
\* The registry, the client state, the resolver, the edit applier and the
\* sessions where a component below them is modelled on its own.
CoreIdle ==
    /\ RegInitVals
    /\ lspOut = <<>> /\ indexedQ = 0 /\ indexedSent = 0
    /\ released = {} /\ waiting = {} /\ events = <<>>
    /\ RsIdle
    /\ EdIdle
    /\ SessIdle

(***************************************************************************)
(* Lookup by path: Context::get_project_by_path.  A path is absolute and   *)
(* in canonical form, written as the sequence of its components; <<>> is   *)
(* the file-system root.                                                   *)
(***************************************************************************)

\* Longest path, in components.
MaxDepth == 3

Names == {"a", "b"}
Paths == SeqsUpTo(Names, MaxDepth)
\* The registries looked up in: up to two roots, nested or not.
Registries == {R \in SUBSET Paths : Cardinality(R) <= 2}

\* Path::parent of a path other than the file-system root.
Parent(p) == SubSeq(p, 1, Len(p) - 1)

\* p is r or lies below r.
IsPrefix(r, p) == Len(r) <= Len(p) /\ SubSeq(p, 1, Len(r)) = r

\* What get_project_by_path returns: the entry found under root, or none.
Found(root) == [found |-> TRUE, root |-> root]
NotFound == [found |-> FALSE, root |-> <<>>]

\* The path the walk looks up first: the path itself.
WalkStartParent(p) == IF p = <<>> THEN p ELSE Parent(p)
WalkStart(p) == p

\* The lookups from current upwards: self.projects.get(&current_path), then the
\* same for each parent until there is none.
RECURSIVE Walk(_, _)
Walk(current, roots) ==
    IF current \in roots THEN Found(current)
    ELSE IF current = <<>> THEN NotFound
    ELSE Walk(Parent(current), roots)

LkInit ==
    /\ lkRoots \in Registries
    /\ lkPath \in Paths
    /\ lkResult = <<>>
    /\ CoreIdle /\ LdIdle /\ BusIdle /\ TcIdle /\ CgIdle /\ WsIdle /\ OfIdle /\ CaIdle /\ HrIdle /\ IxIdle

\* get_project_by_path(path)
GetProjectByPath ==
    /\ lkResult = <<>>
    /\ lkResult' = <<Walk(WalkStart(lkPath), lkRoots)>>
    /\ UNCHANGED <<lkRoots, lkPath>>

LkNext == GetProjectByPath /\ UNCHANGED <<coreVars, ldVars, busVars, tcVars, cgVars, wsVars, ofVars, caVars, hrVars, ixVars>>

SpecLookup == LkInit /\ [][LkNext]_vars

\* The registered roots the path is equal to or below.
RootsAbove == {r \in lkRoots : IsPrefix(r, lkPath)}

\* C22 as stated: for every registered root R the path is equal to or below, the
\* lookup returns the project registered at R; with no such root it returns none.
C22_EveryRootAbove ==
    lkResult # <<>>
        => /\ \A r \in RootsAbove : lkResult[1] = Found(r)
           /\ RootsAbove = {} => lkResult[1] = NotFound

\* C22: the lookup returns the project of the nearest registered root among the
\* path and its ancestors, and none when there is no registered root among them.
C22_NearestRootAbove ==
    lkResult # <<>>
        => IF RootsAbove = {} THEN lkResult[1] = NotFound
           ELSE /\ lkResult[1].found
                /\ lkResult[1].root \in RootsAbove
                /\ \A r \in RootsAbove : Len(r) <= Len(lkResult[1].root)

\* The path lies below two nested registered roots and the lookup returned.
C22_Witness ==
    /\ lkResult # <<>>
    /\ Cardinality(RootsAbove) = 2
    /\ \A r \in RootsAbove : r # lkPath

-----------------------------------------------------------------------------
(***************************************************************************)
(* Loading the persisted registry: Context::load_config.  The file at      *)
(* config_path is one of five kinds; the entries of a well-formed file are *)
(* named by their roots, and the file system says what is at each root.    *)
(***************************************************************************)

\* Most entries in the file.
MaxEntries == 3

LdRoots == 1..MaxEntries
FileStates == {"missing", "unreadable", "blank", "malformed", "entries"}
FsKinds == {"dir", "file", "absent"}

\* config_path.exists()
Exists(file) == file # "missing"

\* fs::read_to_string(&config_path): an error for what cannot be read as UTF-8
\* text (bytes that are not UTF-8, a directory, no permission).
ReadToString(file) == IF file = "unreadable" THEN "Err" ELSE "Ok"

\* toml_string.trim().is_empty()
IsBlank(file) == file = "blank"

\* toml::from_str::<SerConfig>(&toml_string)
ParseToml(file) == IF file = "entries" THEN "Ok" ELSE "Err"

\* !project.root().exists() || !project.root().is_dir() is false.
ValidRoot(kind) == kind = "dir"

LdInit ==
    /\ ldFile \in FileStates
    /\ ldEntries \in (IF ldFile = "entries" THEN SUBSET LdRoots ELSE {{}})
    /\ ldFs \in [LdRoots -> FsKinds]
    /\ ldTodo = {} /\ ldProjects = {} /\ ldSkipped = {} /\ ldFailed = {} /\ ldSaved = {}
    /\ ldPc = "start" /\ ldRet = <<>>
    /\ CoreIdle /\ LkIdle /\ BusIdle /\ TcIdle /\ CgIdle /\ WsIdle /\ OfIdle /\ CaIdle /\ HrIdle /\ IxIdle

\* load_config up to its loop: the four early returns, or the parsed entries.
LoadOpen ==
    /\ ldPc = "start"
    /\ IF ~Exists(ldFile) THEN ldPc' = "done" /\ ldRet' = <<"Ok">> /\ UNCHANGED ldTodo
       ELSE IF ReadToString(ldFile) = "Err"
            THEN ldPc' = "done" /\ ldRet' = <<"Err">> /\ UNCHANGED ldTodo
       ELSE IF IsBlank(ldFile) THEN ldPc' = "done" /\ ldRet' = <<"Ok">> /\ UNCHANGED ldTodo
       ELSE IF ParseToml(ldFile) = "Err"
            THEN ldPc' = "done" /\ ldRet' = <<"Ok">> /\ UNCHANGED ldTodo
       ELSE ldPc' = "loop" /\ ldTodo' = ldEntries /\ UNCHANGED ldRet
    /\ UNCHANGED <<ldFile, ldEntries, ldFs, ldProjects, ldSkipped, ldFailed, ldSaved>>

\* One iteration of for (_, ser_project) in loaded_config.projects, in the order
\* the HashMap yields: the validation, Project::new and add_project, which
\* inserts the root and rewrites the file from the registry (an error of the
\* write is logged).
LoadEntry(e) ==
    /\ ldPc = "loop" /\ e \in ldTodo
    /\ ldTodo' = ldTodo \ {e}
    /\ IF ~ValidRoot(ldFs[e])
       THEN /\ ldSkipped' = ldSkipped \cup {e}
            /\ UNCHANGED <<ldProjects, ldFailed, ldSaved>>
       ELSE \/ /\ ldFailed' = ldFailed \cup {e}       \* Project::new or add_project: Err
               /\ UNCHANGED <<ldProjects, ldSkipped, ldSaved>>
            \/ /\ ldProjects' = ldProjects \cup {e}   \* add_project: Ok
               /\ \E ok \in BOOLEAN : ldSaved' = IF ok THEN ldProjects' ELSE ldSaved
               /\ UNCHANGED <<ldSkipped, ldFailed>>
    /\ UNCHANGED <<ldFile, ldEntries, ldFs, ldPc, ldRet>>

\* The Ok(()) after the loop.
LoadReturn ==
    /\ ldPc = "loop" /\ ldTodo = {}
    /\ ldPc' = "done" /\ ldRet' = <<"Ok">>
    /\ UNCHANGED <<ldFile, ldEntries, ldFs, ldTodo, ldProjects, ldSkipped, ldFailed, ldSaved>>

LdNext ==
    /\ \/ LoadOpen
       \/ \E e \in LdRoots : LoadEntry(e)
       \/ LoadReturn
    /\ UNCHANGED <<coreVars, lkVars, busVars, tcVars, cgVars, wsVars, ofVars, caVars, hrVars, ixVars>>

SpecLoad == LdInit /\ [][LdNext]_vars

\* Every entry of the file was visited: skipped when what is at its root is not
\* a directory, otherwise registered or failed on its own.
EntriesSettled ==
    /\ ldSkipped = {e \in ldEntries : ~ValidRoot(ldFs[e])}
    /\ ldProjects \cup ldFailed = {e \in ldEntries : ValidRoot(ldFs[e])}
    /\ ldProjects \cap ldFailed = {}

\* C25: loading the persisted registry is never fatal: load_config returns Ok
\* whatever is at config_path, and it has then visited every entry, skipping
\* the invalid ones and the ones that failed to be added one by one.
C25_LoadNeverFatal ==
    ldPc = "done" => ldRet = <<"Ok">> /\ EntriesSettled

\* The same for a file that is missing, blank, not TOML, or well formed: the
\* cases other than a file that cannot be read as text.
C25_ReadableNeverFatal ==
    (ldPc = "done" /\ ldFile # "unreadable") => ldRet = <<"Ok">> /\ EntriesSettled

-----------------------------------------------------------------------------
(***************************************************************************)
(* The notification bus: the loop Context::new spawns.  It selects over    *)
(* the two flume receivers and sends what it receives on notifier.  An     *)
(* event is numbered by its position in what its source sent.              *)
(***************************************************************************)

\* Most events one source sends.
MaxMsgs == 2

\* LspNotification::Indexing { project, is_indexing, .. }, the n-th sent.
LspEvent(n, is_indexing) == [src |-> "Lsp", n |-> n, is_indexing |-> is_indexing]
\* McpNotification::Response { content, project }, the n-th sent.
McpEvent(n) == [src |-> "Mcp", n |-> n, is_indexing |-> FALSE]

\* recv_async() of a flume receiver: Ok while something is queued, Err
\* (Disconnected) when nothing is queued and every sender is dropped, pending
\* otherwise.
RecvOk(q) == q # <<>>
RecvErr(q, open) == q = <<>> /\ ~open

\* The else branch of select!: every branch is disabled, its pattern Ok(..)
\* having failed to match.
AnyDisabled == RecvErr(busMcpQ, busMcpOpen) \/ RecvErr(busLspQ, busLspOpen)
AllDisabled == RecvErr(busMcpQ, busMcpOpen) /\ RecvErr(busLspQ, busLspOpen)

\* cloned_notifier.send(ev): queued when the receiver is alive, otherwise an
\* error, which the loop logs.
SendNever(out, ev, open) == out
Send(out, ev, open) == IF open THEN Append(out, ev) ELSE out

BusInit ==
    /\ busLspQ = <<>> /\ busMcpQ = <<>> /\ busOut = <<>>
    /\ busLspOpen = TRUE /\ busMcpOpen = TRUE
    /\ busObOpen \in BOOLEAN
    /\ busDone = FALSE
    /\ busSentL = 0 /\ busSentM = 0
    /\ busIndexing = TRUE
    /\ CoreIdle /\ LkIdle /\ LdIdle /\ TcIdle /\ CgIdle /\ WsIdle /\ OfIdle /\ CaIdle /\ HrIdle /\ IxIdle

\* ClientState: self.notifier.send(LspNotification::Indexing { .. })
LspSend ==
    /\ busLspOpen /\ ~busDone /\ busSentL < MaxMsgs
    /\ \E b \in BOOLEAN : busLspQ' = Append(busLspQ, LspEvent(busSentL + 1, b))
    /\ busSentL' = busSentL + 1
    /\ UNCHANGED <<busMcpQ, busOut, busLspOpen, busMcpOpen, busObOpen, busDone, busSentM,
                   busIndexing>>

\* Context::send_mcp_notification
McpSend ==
    /\ busMcpOpen /\ ~busDone /\ busSentM < MaxMsgs
    /\ busMcpQ' = Append(busMcpQ, McpEvent(busSentM + 1))
    /\ busSentM' = busSentM + 1
    /\ UNCHANGED <<busLspQ, busOut, busLspOpen, busMcpOpen, busObOpen, busDone, busSentL,
                   busIndexing>>

\* The last clone of lsp_sender is dropped.
LspClose ==
    /\ busLspOpen /\ busLspOpen' = FALSE
    /\ UNCHANGED <<busLspQ, busMcpQ, busOut, busMcpOpen, busObOpen, busDone, busSentL,
                   busSentM, busIndexing>>

\* The last clone of mcp_sender is dropped.
McpClose ==
    /\ busMcpOpen /\ busMcpOpen' = FALSE
    /\ UNCHANGED <<busLspQ, busMcpQ, busOut, busLspOpen, busObOpen, busDone, busSentL,
                   busSentM, busIndexing>>

\* The receiver of notifier is dropped.
ObClose ==
    /\ busObOpen /\ busObOpen' = FALSE
    /\ UNCHANGED <<busLspQ, busMcpQ, busOut, busLspOpen, busMcpOpen, busDone, busSentL,
                   busSentM, busIndexing>>

\* select! takes Ok(notification) = mcp_receiver.recv_async()
BusMcp ==
    /\ ~busDone /\ RecvOk(busMcpQ)
    /\ busOut' = Send(busOut, Head(busMcpQ), busObOpen)
    /\ busMcpQ' = Tail(busMcpQ)
    /\ UNCHANGED <<busLspQ, busLspOpen, busMcpOpen, busObOpen, busDone, busSentL, busSentM,
                   busIndexing>>

\* select! takes Ok(LspNotification::Indexing { .. }) = lsp_receiver.recv_async():
\* the send, then the store into is_indexing_lsp of the project.
BusLsp ==
    /\ ~busDone /\ RecvOk(busLspQ)
    /\ busOut' = Send(busOut, Head(busLspQ), busObOpen)
    /\ busIndexing' = Head(busLspQ).is_indexing
    /\ busLspQ' = Tail(busLspQ)
    /\ UNCHANGED <<busMcpQ, busLspOpen, busMcpOpen, busObOpen, busDone, busSentL, busSentM>>

\* select! takes else: break.
BusElse ==
    /\ ~busDone /\ AllDisabled
    /\ busDone' = TRUE
    /\ UNCHANGED <<busLspQ, busMcpQ, busOut, busLspOpen, busMcpOpen, busObOpen, busSentL,
                   busSentM, busIndexing>>

\* The steps of the spawned loop.
BusLoop == BusMcp \/ BusLsp \/ BusElse

BusNext ==
    /\ \/ LspSend
       \/ McpSend
       \/ LspClose
       \/ McpClose
       \/ ObClose
       \/ BusMcp
       \/ BusLsp
       \/ BusElse
    /\ UNCHANGED <<coreVars, lkVars, ldVars, tcVars, cgVars, wsVars, ofVars, caVars, hrVars, ixVars>>

SpecBus == BusInit /\ [][BusNext]_vars

\* The runtime keeps polling the spawned loop.
SpecBusFair == SpecBus /\ WF_vars(BusLoop /\ UNCHANGED <<coreVars, lkVars, ldVars, tcVars, cgVars, wsVars, ofVars, caVars, hrVars, ixVars>>)

\* The numbers of the events of one source in a sequence of events, in order.
RECURSIVE NumbersOf(_, _)
NumbersOf(evs, src) ==
    IF evs = <<>> THEN <<>>
    ELSE (IF evs[1].src = src THEN <<evs[1].n>> ELSE <<>>) \o NumbersOf(Tail(evs), src)

\* The first n numbers in order.
UpTo(n) == [i \in 1..n |-> i]

\* What the loop has received from each source so far is on notifier once each,
\* in the order sent.
ForwardedOnceInOrder ==
    /\ NumbersOf(busOut, "Lsp") = UpTo(busSentL - Len(busLspQ))
    /\ NumbersOf(busOut, "Mcp") = UpTo(busSentM - Len(busMcpQ))

\* C26 as stated: the bus forwards every event it receives to the outbound
\* channel exactly once, the events of one source in the order sent.
C26_EveryEventForwarded == ForwardedOnceInOrder

\* C26: as long as the outbound channel has its receiver, the bus has forwarded
\* every event it received exactly once, the events of one source in the order
\* sent; an event received after the receiver is gone is not forwarded.
C26_ForwardedWhileReceiver ==
    /\ busObOpen => ForwardedOnceInOrder
    /\ Len(busOut) <= (busSentL - Len(busLspQ)) + (busSentM - Len(busMcpQ))
    /\ \A i, j \in DOMAIN busOut :
          (i < j /\ busOut[i].src = busOut[j].src) => busOut[i].n < busOut[j].n

\* Every event of both sources was forwarded, an event of the tool channel
\* before an earlier-sent event of the language-server channel.
C26_Witness ==
    /\ busObOpen
    /\ Len(busOut) = 2 * MaxMsgs
    /\ busOut[1].src = "Mcp" /\ busOut[2].src = "Lsp"

\* C27: the loop ends only when both sources are closed and drained (never while
\* one of them is open or has an event queued), and once both are closed it
\* does end.
C27_EndsWhenAllClosed ==
    /\ [](busDone => /\ ~busLspOpen /\ ~busMcpOpen
                     /\ busLspQ = <<>> /\ busMcpQ = <<>>)
    /\ [][busDone' => (busDone \/ AllDisabled)]_vars
    /\ (~busLspOpen /\ ~busMcpOpen) ~> busDone

\* The loop has ended after forwarding an event received from the one source
\* when the other was already closed.
C27_Witness ==
    /\ busDone
    /\ busSentM = 0 /\ busSentL = MaxMsgs
    /\ Len(busOut) = MaxMsgs

-----------------------------------------------------------------------------
(***************************************************************************)
(* The tool handlers check_project and rename_symbol of DevToolsServer.    *)
(* What the registry, the resolver, the language server, the build tool    *)
(* and the edit applier answer is an input of the call.  A project's name  *)
(* stands for its root as well.                                            *)
(***************************************************************************)

\* Most tool calls.
MaxToolCalls == 2

ProjNames == {"p1", "p2"}

\* A McpNotification sent by call number n.
McpResponse(project, payload, n) ==
    [kind |-> "Response", project |-> project, payload |-> payload, call |-> n]
CodeActionsUpdated(project, n) ==
    [kind |-> "CodeActionsUpdated", project |-> project, payload |-> "none", call |-> n]

\* notify_resp(&self.context, &result, &project_path)
NotifyResp(project, payload, n) == <<McpResponse(project, payload, n)>>

\* What a handler sends between its error_response(..) and its return: nothing.
NoNotify(project, n) == <<>>

\* get_project_name: the name given (remembered in last_project), else
\* last_project, else the name of any loaded project, else an error.
NameChoices(arg) ==
    IF arg # None THEN {arg}
    ELSE IF tcLastProject # None THEN {tcLastProject}
    ELSE tcProjects

\* Context::find_project_by_name is not part of the sources at hand: it is taken
\* to find the projects in the registry by their name.
FindProjectByName(name) == name \in tcProjects

\* What a call leaves behind: its result, the notifications it sent, and the
\* code actions stored.
Outcome3(ret, notes, actions) == [ret |-> ret, notes |-> notes, actions |-> actions]

\* check_project after the project is found.  cargo is what the build tool
\* gave: "Err", or diagnostics: "none", "noprimary" (none with a primary span),
\* "some".
CheckOutcome(p, n, fixes, cargo) ==
    IF cargo = "Err" THEN Outcome3("protocol", <<>>, tcActions)
    ELSE IF fixes
    THEN Outcome3("success", NotifyResp(p, "success", n), tcActions)
    ELSE IF cargo = "none" THEN Outcome3("success", <<>>, tcActions)
    ELSE Outcome3("success", NotifyResp(p, "success", n), tcActions)

\* auto_update_code_actions(project_path): the project's stored actions are
\* removed; CodeActionsUpdated is sent when check_structured succeeds.
AutoUpdateNotes(p, n, auto) == IF auto = "Ok" THEN <<CodeActionsUpdated(p, n)>> ELSE <<>>
AutoUpdateActions(p) == {a \in tcActions : a[1] # p}

\* rename_symbol after the project is found.  sym, uri, rn and apply are what
\* resolve_symbol_in_project, to_file_path, lsp.rename and apply_workspace_edit
\* gave; auto is what check_structured gave in auto_update_code_actions.
RenameOutcome(p, n, sym, uri, rn, exec, apply, auto) ==
    IF sym = "Err" THEN Outcome3("error", NoNotify(p, n), tcActions)
    ELSE IF uri = "Err" THEN Outcome3("error", NoNotify(p, n), tcActions)
    ELSE IF rn # "Some" THEN Outcome3("protocol", <<>>, tcActions)
    ELSE IF exec
    THEN IF apply = "Ok"
         THEN Outcome3("success", NotifyResp(p, "success", n) \o AutoUpdateNotes(p, n, auto),
                       AutoUpdateActions(p))
         ELSE Outcome3("error", NoNotify(p, n), tcActions)
    ELSE Outcome3("success", NotifyResp(p, "success", n), tcActions \cup {<<p, "rename">>})

\* The record of a call.
ToolCall(tool, resolved, project, ret, n) ==
    [tool |-> tool, resolved |-> resolved, project |-> project, ret |-> ret, n |-> n]

TcInit ==
    /\ tcProjects \in SUBSET ProjNames
    /\ tcLastProject = None
    /\ tcActions = {} /\ tcSent = <<>> /\ tcCall = <<>> /\ tcN = 0
    /\ CoreIdle /\ LkIdle /\ LdIdle /\ BusIdle /\ CgIdle /\ WsIdle /\ OfIdle /\ CaIdle /\ HrIdle /\ IxIdle

\* The part every handler starts with: get_project_name and
\* find_project_by_name, then the handler's own work, out[name] for the project
\* found.
Handle(tool, arg, out) ==
    /\ tcN < MaxToolCalls
    /\ tcN' = tcN + 1
    /\ IF NameChoices(arg) = {}
       THEN /\ tcCall' = <<ToolCall(tool, FALSE, None, "protocol", tcN + 1)>>
            /\ UNCHANGED <<tcLastProject, tcActions, tcSent>>
       ELSE \E name \in NameChoices(arg) :
              /\ tcLastProject' = name
              /\ IF ~FindProjectByName(name)
                 THEN /\ tcCall' = <<ToolCall(tool, FALSE, name, "error", tcN + 1)>>
                      /\ UNCHANGED <<tcActions, tcSent>>
                 ELSE /\ tcCall' = <<ToolCall(tool, TRUE, name, out[name].ret, tcN + 1)>>
                      /\ tcSent' = tcSent \o out[name].notes
                      /\ tcActions' = out[name].actions
    /\ UNCHANGED tcProjects

\* check_project(project_name, include_fixes)
CheckProject ==
    \E arg \in ProjNames \cup {None}, fixes \in BOOLEAN,
       cargo \in {"Err", "none", "noprimary", "some"} :
        LET out == [name \in ProjNames |-> CheckOutcome(name, tcN + 1, fixes, cargo)]
        IN Handle("check_project", arg, out)

\* rename_symbol(project_name, symbol_name, new_name, file_hint, execute_immediately)
RenameSymbol ==
    \E arg \in ProjNames \cup {None}, sym \in {"Ok", "Err"}, uri \in {"Ok", "Err"},
       rn \in {"Err", "None", "Some"}, exec \in BOOLEAN, apply \in {"Ok", "Err"},
       auto \in {"Ok", "Err"} :
        LET out == [name \in ProjNames |->
                      RenameOutcome(name, tcN + 1, sym, uri, rn, exec, apply, auto)]
        IN Handle("rename_symbol", arg, out)

TcNext ==
    /\ \/ CheckProject
       \/ RenameSymbol
    /\ UNCHANGED <<coreVars, lkVars, ldVars, busVars, cgVars, wsVars, ofVars, caVars, hrVars, ixVars>>

SpecTool == TcInit /\ [][TcNext]_vars

\* The Response notifications call c sent for its project with its payload.
Mirrors(c) ==
    {i \in DOMAIN tcSent : /\ tcSent[i].call = c.n
                           /\ tcSent[i].kind = "Response"
                           /\ tcSent[i].project = c.project
                           /\ tcSent[i].payload = c.ret}

\* C28: a tool call against a resolved project that returned a success payload
\* or an error payload has sent exactly one tool-invocation notification for
\* that project.
C28_EveryCallMirrored ==
    \A i \in DOMAIN tcCall :
        (tcCall[i].resolved /\ tcCall[i].ret \in {"success", "error"})
            => Cardinality(Mirrors(tcCall[i])) = 1

\* What does hold: an error payload is never mirrored, a success payload at most
\* once.
C28_OnlySuccessMirrored ==
    \A i \in DOMAIN tcCall :
        /\ tcCall[i].ret # "success" => \A j \in DOMAIN tcSent : tcSent[j].call # tcCall[i].n
        /\ Cardinality(Mirrors(tcCall[i])) <= 1

-----------------------------------------------------------------------------
(***************************************************************************)
(* The build-tool runner: CargoRemote.  The standard output of the cargo   *)
(* subprocess is a sequence of symbols: "NL" is a line feed, "x" a         *)
(* character that is no JSON, "BAD" a byte that is not UTF-8, and each of  *)
(* the others stands for the whole text of one JSON message of cargo.      *)
(* There is no carriage return among them.                                 *)
(***************************************************************************)

\* Longest standard output, in symbols.
MaxOut == 5

\* The JSON texts: a compiler-artifact message, and compiler-message messages
\* of level error without span, and of levels error, warning and note with one
\* span.
JsonTexts == {"art", "err0", "err1", "warn1", "note1"}
OutChars == JsonTexts \cup {"x", "NL"}
OutBytes == OutChars \cup {"BAD"}
CargoOps == {"check_structured", "check_rendered", "test"}

\* The CargoMessage a JSON text deserializes to.
CargoMessage(t) ==
    [reason |-> IF t = "art" THEN "compiler-artifact" ELSE "compiler-message",
     level |-> CASE t \in {"err0", "err1"} -> "error"
                 [] t = "warn1" -> "warning"
                 [] t = "note1" -> "note"
                 [] OTHER -> "",
     spans |-> IF t \in {"err1", "warn1", "note1"} THEN 1 ELSE 0,
     rendered |-> IF t = "art" THEN "" ELSE t]

\* String::from_utf8(output.stdout) is Ok.
FromUtf8Ok(out) == \A i \in DOMAIN out : out[i] # "BAD"

\* json::from_str::<CargoMessage>(line) is Ok: the line is one JSON message and
\* nothing else.
ParseOk(line) == Len(line) = 1 /\ line[1] \in JsonTexts

\* !line.is_empty()
NotEmpty(line) == line # <<>>

\* The loop of run_cargo_command over the lines left, given the two vectors so
\* far.
RECURSIVE Classify(_, _, _)
Classify(ls, messages, test_messages) ==
    IF ls = <<>> THEN [ok |-> TRUE, messages |-> messages, test_messages |-> test_messages]
    ELSE IF ParseOk(ls[1])
         THEN Classify(Tail(ls), Append(messages, CargoMessage(ls[1][1])), test_messages)
         ELSE Classify(Tail(ls), messages, Append(test_messages, ls[1]))

\* run_cargo_command: the two vectors, or the error of from_utf8.
RunCargoCommand(out) ==
    IF ~FromUtf8Ok(out) THEN [ok |-> FALSE, messages |-> <<>>, test_messages |-> <<>>]
    ELSE Classify(SelectSeq(Lines(out), NotEmpty), <<>>, <<>>)

\* The filter of check_structured: a compiler message of level error or warning
\* with at least one span.
KeepsAnySpans(m) ==
    /\ m.reason = "compiler-message"
    /\ m.level = "error" \/ m.level = "warning"
Keeps(m) ==
    /\ m.reason = "compiler-message"
    /\ m.level = "error" \/ m.level = "warning"
    /\ m.spans # 0

\* What an operation returns: Ok with a value, or an error.
CgOk(val) == [ok |-> TRUE, val |-> val]
CgErr == [ok |-> FALSE, val |-> <<>>]

\* check_structured on the run's result
CheckStructuredOf(run) == IF ~run.ok THEN CgErr ELSE CgOk(SelectSeq(run.messages, Keeps))

\* check_rendered on the run's result: the rendered field of each diagnostic of
\* check_structured.
CheckRenderedOf(run) ==
    LET d == CheckStructuredOf(run)
    IN IF ~d.ok THEN CgErr ELSE CgOk([i \in DOMAIN d.val |-> d.val[i].rendered])

\* test on the run's result
TestOf(run) == IF ~run.ok THEN CgErr ELSE CgOk(run.test_messages)

\* cargo check prints its messages and what rustc printed as text; the tests
\* that cargo test runs write to the same standard output whatever they like.
CgInit ==
    /\ cgOp \in CargoOps
    /\ cgStdout \in SeqsUpTo(IF cgOp = "test" THEN OutBytes ELSE OutChars, MaxOut)
    /\ cgRun = <<>> /\ cgRet = <<>>
    /\ CoreIdle /\ LkIdle /\ LdIdle /\ BusIdle /\ TcIdle /\ WsIdle /\ OfIdle /\ CaIdle /\ HrIdle /\ IxIdle

\* check_structured()
CheckStructured ==
    /\ cgOp = "check_structured" /\ cgRet = <<>>
    /\ cgRun' = <<RunCargoCommand(cgStdout)>>
    /\ cgRet' = <<CheckStructuredOf(RunCargoCommand(cgStdout))>>
    /\ UNCHANGED <<cgOp, cgStdout>>

\* check_rendered()
CheckRendered ==
    /\ cgOp = "check_rendered" /\ cgRet = <<>>
    /\ cgRun' = <<RunCargoCommand(cgStdout)>>
    /\ cgRet' = <<CheckRenderedOf(RunCargoCommand(cgStdout))>>
    /\ UNCHANGED <<cgOp, cgStdout>>

\* test(test_name, backtrace)
Test ==
    /\ cgOp = "test" /\ cgRet = <<>>
    /\ cgRun' = <<RunCargoCommand(cgStdout)>>
    /\ cgRet' = <<TestOf(RunCargoCommand(cgStdout))>>
    /\ UNCHANGED <<cgOp, cgStdout>>

CgNext ==
    /\ \/ CheckStructured
       \/ CheckRendered
       \/ Test
    /\ UNCHANGED <<coreVars, lkVars, ldVars, busVars, tcVars, wsVars, ofVars, caVars, hrVars, ixVars>>

SpecCargo == CgInit /\ [][CgNext]_vars

\* The non-empty lines of the standard output, in order.
OutLines == SelectSeq(Lines(cgStdout), NotEmpty)

\* Every non-empty line is in exactly one of the two vectors: the lines that
\* parse are the structured messages, the others are the plain lines as they
\* were, both in the order of the output.
LinesClassified(run) ==
    LET parsed == SelectSeq(OutLines, ParseOk)
        NoParse(l) == ~ParseOk(l)
    IN /\ Len(run.messages) + Len(run.test_messages) = Len(OutLines)
       /\ run.messages = [i \in DOMAIN parsed |-> CargoMessage(parsed[i][1])]
       /\ run.test_messages = SelectSeq(OutLines, NoParse)

\* C29: after a run of the build tool every non-empty line of its standard
\* output is in exactly one of the two results, the structured messages if it
\* parses and the plain lines verbatim otherwise, each in output order; whether
\* a line parses does not depend on the lines next to it.
C29_EveryLineClassified ==
    \A i \in DOMAIN cgRun : LinesClassified(cgRun[i])

\* The same for a standard output that is UTF-8 text.
C29_TextLinesClassified ==
    \A i \in DOMAIN cgRun : FromUtf8Ok(cgStdout) => cgRun[i].ok /\ LinesClassified(cgRun[i])

\* The lines check is about: one compiler message of severity error or warning
\* with a span.
WantedLine(l) == Len(l) = 1 /\ l[1] \in {"err1", "warn1"}
Wanted == SelectSeq(OutLines, WantedLine)

\* C30: check returns exactly the compiler messages of severity error or
\* warning that have a span, in output order, and check_rendered returns the
\* rendered text of exactly those messages in the same order.
C30_CheckFilters ==
    \A i \in DOMAIN cgRet :
        /\ cgOp = "check_structured"
              => /\ cgRet[i].ok
                 /\ cgRet[i].val = [j \in DOMAIN Wanted |-> CargoMessage(Wanted[j][1])]
        /\ cgOp = "check_rendered"
              => /\ cgRet[i].ok
                 /\ cgRet[i].val = [j \in DOMAIN Wanted |-> CargoMessage(Wanted[j][1]).rendered]

\* check_rendered returned two texts in output order from an output of three
\* compiler messages, the one without a span dropped.
C30_Witness ==
    /\ cgOp = "check_rendered"
    /\ cgStdout = <<"warn1", "NL", "err0", "NL", "err1">>
    /\ cgRet = <<CgOk(<<"warn1", "err1">>)>>

(***************************************************************************)
(* Workspace edits: mcp/utils.rs, apply_workspace_edit.  The edit's        *)
(* `changes` is a HashMap from file URI to the file's edits; the loop      *)
(* visits the files in the map's order and `?` ends it at the first file   *)
(* that fails.                                                             *)
(***************************************************************************)

\* The files a WorkspaceEdit names.
WsFiles == {"f1", "f2"}
\* What a file holds before the edit.
WsContents == {<<"a">>, <<"E2">>}
\* The edits of one file: they start at the file's start.
WsEdits == {TextEdit(Pos(0, 0), e, t) : e \in Positions, t \in NewTexts}
WsBatches == {<<>>} \cup {<<e>> : e \in WsEdits} \cup (WsEdits \X WsEdits)

\* How apply_workspace_edit ended, and the file it ended on.
WsEnded(status, file) == [status |-> status, file |-> file]

WsInit ==
    /\ wsIn \in [WsFiles -> [uri_ok : BOOLEAN, content : WsContents, edits : WsBatches]]
    /\ wsDisk = [f \in WsFiles |-> wsIn[f].content]
    /\ wsTodo = WsFiles
    /\ wsRet = <<>>
    /\ CoreIdle /\ LkIdle /\ LdIdle /\ BusIdle /\ TcIdle /\ CgIdle /\ OfIdle /\ CaIdle /\ HrIdle /\ IxIdle

\* What apply_edits_to_file makes of a file.
WsApplied(f) == ApplyLoop(wsDisk[f], wsDisk[f], SortEdits(wsIn[f].edits))

\* One round of the loop over `changes`: uri.to_file_path()?, then
\* apply_edits_to_file(..)?.  A panic of the latter unwinds through the loop.
WsApplyFile(f) ==
    /\ wsRet = <<>>
    /\ f \in wsTodo
    /\ IF ~wsIn[f].uri_ok
       THEN wsRet' = <<WsEnded("Err", f)>> /\ UNCHANGED <<wsDisk, wsTodo>>
       ELSE LET r == WsApplied(f)
            IN IF r.status = "Ok"
               THEN /\ wsDisk' = [wsDisk EXCEPT ![f] = r.content]
                    /\ wsTodo' = wsTodo \ {f}
                    /\ UNCHANGED wsRet
               ELSE /\ wsRet' = <<WsEnded(IF r.status = "Panic" THEN "Panic" ELSE "Err", f)>>
                    /\ UNCHANGED <<wsDisk, wsTodo>>
    /\ UNCHANGED wsIn

\* The loop ran through: Ok(()).
WsReturnOk ==
    /\ wsRet = <<>>
    /\ wsTodo = {}
    /\ wsRet' = <<WsEnded("Ok", "none")>>
    /\ UNCHANGED <<wsIn, wsDisk, wsTodo>>

ApplyWorkspaceEdit == (\E f \in WsFiles : WsApplyFile(f)) \/ WsReturnOk

WsNext == ApplyWorkspaceEdit /\ UNCHANGED <<coreVars, lkVars, ldVars, busVars, tcVars, cgVars, ofVars, caVars, hrVars, ixVars>>

SpecWorkspace == WsInit /\ [][WsNext]_vars

\* The files the loop visited before the one it ended on.
WsEarlier == WsFiles \ wsTodo

\* What a file's edits make of the content it had before the call.
WsEdited(f) == ApplyLoop(wsIn[f].content, wsIn[f].content, SortEdits(wsIn[f].edits)).content

\* The call did not go through on some file.
WsFailed == wsRet # <<>> /\ wsRet[1].status # "Ok"

\* C31: when apply fails on one file of a workspace edit, the edits written to
\* earlier files stay applied, the failing file is unchanged and apply returns
\* an error.
C31_FailureKeepsEarlierFiles ==
    WsFailed
        => /\ wsRet[1].status = "Err"
           /\ wsDisk[wsRet[1].file] = wsIn[wsRet[1].file].content
           /\ \A g \in WsEarlier : wsDisk[g] = WsEdited(g)

\* The part of C31 that is about the files: whichever way the call ends on a
\* file, the earlier files keep their edits and that file is as it was.
C31_NoRollback ==
    WsFailed
        => /\ wsDisk[wsRet[1].file] = wsIn[wsRet[1].file].content
           /\ \A g \in WsEarlier : wsDisk[g] = WsEdited(g)

\* A call that failed on its second file after changing its first.
C31_Witness ==
    /\ WsFailed
    /\ \E g \in WsEarlier : wsDisk[g] # wsIn[g].content

(***************************************************************************)
(* Position to offset: mcp/utils.rs, pos_to_offset, over contents that     *)
(* may hold carriage returns.                                              *)
(***************************************************************************)

\* What a file may hold: a one-byte and a three-byte character, a carriage
\* return and a line feed.
OfChars == FileChars \cup {"CR"}
\* The positions pos_to_offset is called with.
OfPositions == {Pos(l, c) : l \in 0..2, c \in 0..2}

OfInit ==
    /\ ofContent \in SeqsUpTo(OfChars, MaxLen)
    /\ ofPos \in OfPositions
    /\ ofResult = <<>>
    /\ CoreIdle /\ LkIdle /\ LdIdle /\ BusIdle /\ TcIdle /\ CgIdle /\ WsIdle /\ CaIdle /\ HrIdle /\ IxIdle

\* pos_to_offset(pos, content).
PosToOffsetCall ==
    /\ ofResult = <<>>
    /\ ofResult' = <<PosToOffset(ofPos, ofContent)>>
    /\ UNCHANGED <<ofContent, ofPos>>

OfNext == PosToOffsetCall /\ UNCHANGED <<coreVars, lkVars, ldVars, busVars, tcVars, cgVars, wsVars, caVars, hrVars, ixVars>>

SpecOffset == OfInit /\ [][OfNext]_vars

\* The number of bytes in front of line k of the content: every line before it
\* with its line terminator.
RECURSIVE LineStart(_, _)
LineStart(content, k) ==
    IF k = 0 \/ content = <<>> THEN 0
    ELSE LenUtf8(content[1]) + LineStart(Tail(content), IF content[1] = "NL" THEN k - 1 ELSE k)

\* The position addresses a character of a line of the content, or its end.
Addresses(pos, content) ==
    /\ pos.line < Len(Lines(content))
    /\ pos.character <= Len(Lines(content)[pos.line + 1])

\* The byte offset of an addressed position.
ByteOffset(pos, content) ==
    LineStart(content, pos.line) + ByteLen(SubSeq(Lines(content)[pos.line + 1], 1, pos.character))

\* C34: for every content and position that addresses a character or the end
\* of a line, pos_to_offset returns the position's byte offset in the content.
C34_OffsetIsByteOffset ==
    (ofResult # <<>> /\ Addresses(ofPos, ofContent))
        => ofResult[1] = ByteOffset(ofPos, ofContent)

\* No line of the content ends in a carriage return and a line feed.
NoCrLf == \A i \in 1..(Len(ofContent) - 1) : ~(ofContent[i] = "CR" /\ ofContent[i + 1] = "NL")

\* In a content whose lines end in a bare line feed, pos_to_offset returns the
\* byte offset of every addressed position.
C34_LfOffsetIsByteOffset ==
    (ofResult # <<>> /\ Addresses(ofPos, ofContent) /\ NoCrLf)
        => ofResult[1] = ByteOffset(ofPos, ofContent)

\* A position on the second line, behind a three-byte character.
C34_Witness ==
    /\ ofResult # <<>> /\ Addresses(ofPos, ofContent) /\ NoCrLf
    /\ ofPos.line = 1 /\ ofResult[1] > 3

(***************************************************************************)
(* The pending code actions: DevToolsServer.code_actions, the handlers     *)
(* that store into it, sweep it and take from it.  Every handler is taken  *)
(* after its project was found; execute_code_action is two steps, the      *)
(* removal from the map and the application of the edit, since its callers *)
(* run concurrently.                                                       *)
(***************************************************************************)

\* Most tool calls other than execute_code_action.
MaxActCalls == 2

\* generate_action_id("rename", "{symbol}_to_{new}"): the project is no part of it.
ActionIds == {"i1", "i2"}
\* The callers of execute_code_action.
ExecCallers == {"e1", "e2"}

\* A CodeAction in the store, the n-th stored.
CodeAction(id, project_name, n) == [id |-> id, project_name |-> project_name, n |-> n]

\* code_actions.insert(id, action): DashMap::insert replaces the id's entry.
InsertAction(store, a) == {b \in store : b.id # a.id} \cup {a}

\* code_actions.remove(&id): what is left in the map.
KeepAction(store, id) == store
RemoveAction(store, id) == {b \in store : b.id # id}

\* auto_update_code_actions(project_path): the project's entries are removed;
\* none is inserted.
SweepProject(store, p) == {b \in store : b.project_name # p}

\* An execute_code_action call.
ExecIdle == [pc |-> "idle", id |-> None, action |-> <<>>, ret |-> None]

CaInit ==
    /\ caStore = {} /\ caGen = 0 /\ caN = 0
    /\ caExec = [e \in ExecCallers |-> ExecIdle]
    /\ caApplied = {} /\ caCalled = {} /\ caPreviewed = {}
    /\ caListed = <<>> /\ caLast = <<>>
    /\ CoreIdle /\ FirstIdle /\ HrIdle /\ IxIdle

\* A call of a handler other than execute_code_action that leaves `store`.
ToolStep(tool, p, store) ==
    /\ caN < MaxActCalls
    /\ caN' = caN + 1
    /\ caStore' = store
    /\ caLast' = <<[tool |-> tool, project |-> p]>>
    /\ UNCHANGED <<caExec, caApplied, caCalled>>

\* rename_symbol(.., execute_immediately = false): the preview is stored.
RenamePreview ==
    \E p \in ProjNames, id \in ActionIds :
        /\ ToolStep("rename_symbol", p, InsertAction(caStore, CodeAction(id, p, caGen + 1)))
        /\ caGen' = caGen + 1
        /\ caPreviewed' = caPreviewed \cup {CodeAction(id, p, caGen + 1)}
        /\ UNCHANGED caListed

\* rename_symbol(.., execute_immediately = true): auto_update_code_actions
\* after the edit was applied.
RenameImmediate ==
    \E p \in ProjNames, apply \in {"Ok", "Err"} :
        /\ ToolStep("rename_symbol", p, IF apply = "Ok" THEN SweepProject(caStore, p) ELSE caStore)
        /\ UNCHANGED <<caGen, caPreviewed, caListed>>

\* get_symbol_info: auto_update_code_actions once the symbol was resolved.
GetSymbolInfo ==
    \E p \in ProjNames, sym \in {"Ok", "Err"} :
        /\ ToolStep("get_symbol_info", p, IF sym = "Ok" THEN SweepProject(caStore, p) ELSE caStore)
        /\ UNCHANGED <<caGen, caPreviewed, caListed>>

\* check_project: the store is not touched.
CheckProjectStore ==
    \E p \in ProjNames :
        /\ ToolStep("check_project", p, caStore)
        /\ UNCHANGED <<caGen, caPreviewed, caListed>>

\* refresh_code_actions(project_name): auto_update_code_actions of the project,
\* or refresh_all_code_actions, which clears the map.
RefreshCodeActions ==
    \E arg \in ProjNames \cup {None} :
        /\ ToolStep("refresh_code_actions", arg,
                    IF arg = None THEN {} ELSE SweepProject(caStore, arg))
        /\ UNCHANGED <<caGen, caPreviewed, caListed>>

\* list_code_actions
ListCodeActions ==
    /\ caListed' = <<{a.id : a \in caStore}>>
    /\ caLast' = <<[tool |-> "list_code_actions", project |-> None]>>
    /\ UNCHANGED <<caStore, caGen, caN, caExec, caApplied, caCalled, caPreviewed>>

\* execute_code_action(action_id) up to its first `else`: code_actions.remove.
ExecuteRemove(e) ==
    \E id \in ActionIds :
        /\ caExec[e].pc = "idle"
        /\ caCalled' = caCalled \cup {id}
        /\ caLast' = <<[tool |-> "execute_code_action", project |-> None]>>
        /\ LET found == {a \in caStore : a.id = id}
           IN IF found = {}
              THEN /\ caExec' = [caExec EXCEPT ![e] = [pc |-> "done", id |-> id,
                                                        action |-> <<>>, ret |-> "not_found"]]
                   /\ UNCHANGED caStore
              ELSE /\ caExec' = [caExec EXCEPT ![e] = [pc |-> "apply", id |-> id,
                                    action |-> <<CHOOSE a \in found : TRUE>>, ret |-> None]]
                   /\ caStore' = RemoveAction(caStore, id)
        /\ UNCHANGED <<caGen, caN, caApplied, caPreviewed, caListed>>

\* execute_code_action from apply_workspace_edit on: Ok, Err or a panic of the
\* edit applier; after Ok, auto_update_code_actions when the action's project
\* is found.
ExecuteApply(e) ==
    \E apply \in {"Ok", "Err", "Panic"}, found \in BOOLEAN :
        /\ caExec[e].pc = "apply"
        /\ caApplied' = caApplied \cup {[n |-> caExec[e].action[1].n, by |-> e, apply |-> apply]}
        /\ caExec' = [caExec EXCEPT ![e].pc = "done",
                                    ![e].ret = IF apply = "Ok" THEN "success"
                                               ELSE IF apply = "Err" THEN "error" ELSE "panic"]
        /\ caStore' = IF apply = "Ok" /\ found
                      THEN SweepProject(caStore, caExec[e].action[1].project_name)
                      ELSE caStore
        /\ caLast' = <<[tool |-> "execute_code_action", project |-> None]>>
        /\ UNCHANGED <<caGen, caN, caCalled, caPreviewed, caListed>>

CaNext ==
    /\ \/ RenamePreview
       \/ RenameImmediate
       \/ GetSymbolInfo
       \/ CheckProjectStore
       \/ RefreshCodeActions
       \/ ListCodeActions
       \/ \E e \in ExecCallers : ExecuteRemove(e)
       \/ \E e \in ExecCallers : ExecuteApply(e)
    /\ UNCHANGED <<coreVars, firstVars, hrVars, ixVars>>

SpecActions == CaInit /\ [][CaNext]_vars

\* The stored actions ever put under an id.
PreviewsOf(id) == {a \in caPreviewed : a.id = id}

\* The call took an action out of the store.
TookAction(e) == caExec[e].pc = "apply" \/ (caExec[e].pc = "done" /\ caExec[e].ret # "not_found")

\* C38: a pending code action is applied at most once: of two calls of
\* execute_code_action with the id of one stored action at most one takes the
\* action and applies its edit, and the other reports that it is not found,
\* whether the application succeeds or fails.
C38_AppliedAtMostOnce ==
    /\ \A x, y \in caApplied : x.n = y.n => x = y
    /\ \A e \in ExecCallers : TookAction(e) =>
          \A f \in ExecCallers \ {e} : caExec[f].action # caExec[e].action
    /\ \A e, f \in ExecCallers :
          (/\ e # f
           /\ caExec[e].pc = "done" /\ caExec[f].pc = "done"
           /\ caExec[e].id = caExec[f].id
           /\ Cardinality(PreviewsOf(caExec[e].id)) <= 1)
              => caExec[e].ret = "not_found" \/ caExec[f].ret = "not_found"

\* Two calls with the id of the one action stored under it: the application of
\* the one failed, the other reported not found.
C38_Witness ==
    \E e, f \in ExecCallers :
        /\ e # f
        /\ caExec[e].pc = "done" /\ caExec[f].pc = "done"
        /\ caExec[e].id = caExec[f].id
        /\ Cardinality(PreviewsOf(caExec[e].id)) = 1
        /\ caExec[e].ret \in {"error", "panic"}
        /\ caExec[f].ret = "not_found"

\* C39: a rename preview stays in the store under its id until
\* execute_code_action is called with that id.
C39_PreviewStaysPending ==
    \A a \in caPreviewed :
        a.id \notin caCalled => \E b \in caStore : b.id = a.id

\* What does hold: check_project and list_code_actions remove nothing; an entry
\* leaves the store only in a call of rename_symbol, get_symbol_info,
\* refresh_code_actions or execute_code_action.
C39_OnlySweepsRemove ==
    [][(\E a \in caStore : \A b \in caStore' : b.id # a.id)
          => caLast'[1].tool \in {"rename_symbol", "get_symbol_info",
                                  "refresh_code_actions", "execute_code_action"}]_vars

(***************************************************************************)
(* Hot reload: ConfigWatcher.  The debouncer hands the events of a window  *)
(* to handle_config_change, which spawns a reload task for an event of the *)
(* registry file; the task runs load_config, whose add_project calls       *)
(* rewrite the file.  The file has just been changed from outside, once.   *)
(***************************************************************************)

HrRoots == {"r1", "r2"}
\* The reload tasks that can be running at a time.
ReloadTasks == {"t1", "t2"}

HrTaskIdle == [pc |-> "idle", todo |-> {}]

HrInit ==
    /\ hrFile \in FileStates
    /\ hrEntries \in (IF hrFile = "entries" THEN SUBSET HrRoots ELSE {{}})
    /\ hrFs \in [HrRoots -> {"dir", "absent"}]
    /\ hrProjects \in SUBSET {r \in HrRoots : ValidRoot(hrFs[r])}
    /\ hrPending = TRUE
    /\ hrTasks = [t \in ReloadTasks |-> HrTaskIdle]
    /\ CoreIdle /\ FirstIdle /\ CaIdle /\ IxIdle

\* The debouncer's window ends: handle_config_change finds an event whose path
\* is config_path and spawns reload_config.
HandleConfigChange(t) ==
    /\ hrPending
    /\ hrTasks[t].pc = "idle"
    /\ hrPending' = FALSE
    /\ hrTasks' = [hrTasks EXCEPT ![t].pc = "open"]
    /\ UNCHANGED <<hrFile, hrEntries, hrFs, hrProjects>>

\* reload_config: load_config up to its loop.
ReloadOpen(t) ==
    /\ hrTasks[t].pc = "open"
    /\ IF \/ ~Exists(hrFile) \/ ReadToString(hrFile) = "Err"
          \/ IsBlank(hrFile) \/ ParseToml(hrFile) = "Err"
       THEN hrTasks' = [hrTasks EXCEPT ![t] = HrTaskIdle]
       ELSE hrTasks' = [hrTasks EXCEPT ![t] = [pc |-> "loop", todo |-> hrEntries]]
    /\ UNCHANGED <<hrFile, hrEntries, hrFs, hrProjects, hrPending>>

\* One iteration of load_config's loop: the validation, then add_project, which
\* inserts the root and calls write_config; fs::write of the file gives the
\* watcher an event, whatever is written.
ReloadEntry(t, e) ==
    /\ hrTasks[t].pc = "loop" /\ e \in hrTasks[t].todo
    /\ hrTasks' = [hrTasks EXCEPT ![t].todo = @ \ {e}]
    /\ IF ~ValidRoot(hrFs[e])
       THEN UNCHANGED <<hrFile, hrEntries, hrProjects, hrPending>>
       ELSE \/ UNCHANGED <<hrFile, hrEntries, hrProjects, hrPending>>   \* add_project: Err
            \/ /\ hrProjects' = hrProjects \cup {e}                       \* add_project: Ok
               /\ \/ /\ hrFile' = "entries" /\ hrEntries' = hrProjects'   \* fs::write: Ok
                     /\ hrPending' = TRUE
                  \/ UNCHANGED <<hrFile, hrEntries, hrPending>>           \* write_config: Err
    /\ UNCHANGED hrFs

\* load_config returns; the task ends.
ReloadReturn(t) ==
    /\ hrTasks[t].pc = "loop" /\ hrTasks[t].todo = {}
    /\ hrTasks' = [hrTasks EXCEPT ![t] = HrTaskIdle]
    /\ UNCHANGED <<hrFile, hrEntries, hrFs, hrProjects, hrPending>>

HrStep ==
    \E t \in ReloadTasks :
        \/ HandleConfigChange(t)
        \/ ReloadOpen(t)
        \/ \E e \in HrRoots : ReloadEntry(t, e)
        \/ ReloadReturn(t)

HrNext == HrStep /\ UNCHANGED <<coreVars, firstVars, caVars, ixVars>>

SpecReload == HrInit /\ [][HrNext]_vars

\* The debouncer's thread and the runtime keep running what they can.
SpecReloadFair == SpecReload /\ WF_vars(HrNext)

\* No event is held and no reload task runs.
HrQuiet == ~hrPending /\ \A t \in ReloadTasks : hrTasks[t].pc = "idle"

ListsValidRoot == hrFile = "entries" /\ \E e \in hrEntries : ValidRoot(hrFs[e])

\* What does hold: a change that leaves no entry with a directory at its root
\* is followed by one reload and nothing more.
C35_QuiescesWithoutValidEntry == ~ListsValidRoot => <>[]HrQuiet

(***************************************************************************)
(* The indexing flag: the Indexing branch of the loop Context::new spawns, *)
(* step by step, with the sessions that send the notifications, the        *)
(* add_project calls that create the flags and the consumer of notifier.   *)
(***************************************************************************)

\* Most Indexing notifications sent.
MaxIndexing == 3

IxRoots == {"r1", "r2"}

\* LspNotification::Indexing { project, is_indexing, .. }, the n-th sent.
IxEvent(project, is_indexing, n) == [project |-> project, is_indexing |-> is_indexing, n |-> n]

\* Context::new: no project yet.
IxInit ==
    /\ ixQ = <<>> /\ ixOut = <<>>
    /\ ixFlags = [r \in IxRoots |-> <<>>]
    /\ ixPc = <<>>
    /\ ixSpawned = {}
    /\ ixLast = [r \in IxRoots |-> <<>>]
    /\ ixN = 0
    /\ ixObs = <<>>
    /\ CoreIdle /\ FirstIdle /\ CaIdle /\ HrIdle

\* add_project up to its insert: RustAnalyzerLsp::new, which starts the
\* subprocess and the task that forwards its notifications.  There is no check
\* that the root is not registered.
IxAddSpawn(r) ==
    /\ r \notin ixSpawned
    /\ ixSpawned' = ixSpawned \cup {r}
    /\ UNCHANGED <<ixQ, ixOut, ixFlags, ixPc, ixLast, ixN, ixObs>>

\* add_project: self.projects.insert(root, project_context), is_indexing_lsp
\* being AtomicBool::new(true).
IxAddInsert(r) ==
    /\ r \in ixSpawned
    /\ ixSpawned' = ixSpawned \ {r}
    /\ ixFlags' = [ixFlags EXCEPT ![r] = <<TRUE>>]
    /\ UNCHANGED <<ixQ, ixOut, ixPc, ixLast, ixN, ixObs>>

\* ClientState::progress of the session of r: an Indexing notification, true
\* for a begin or report, false for an end.
IxProgress(r) ==
    /\ r \in ixSpawned \/ ixFlags[r] # <<>>
    /\ ixN < MaxIndexing
    /\ \E b \in BOOLEAN :
          /\ ixQ' = Append(ixQ, IxEvent(r, b, ixN + 1))
          /\ ixLast' = [ixLast EXCEPT ![r] = <<b>>]
    /\ ixN' = ixN + 1
    /\ UNCHANGED <<ixOut, ixFlags, ixPc, ixSpawned, ixObs>>

\* The Indexing branch of select!, first statement:
\* cloned_notifier.send(ContextNotification::Lsp(notification.clone())).
IxForward ==
    /\ ixPc = <<>> /\ ixQ # <<>>
    /\ ixOut' = Append(ixOut, Head(ixQ))
    /\ ixPc' = <<Head(ixQ)>>
    /\ ixQ' = Tail(ixQ)
    /\ UNCHANGED <<ixFlags, ixSpawned, ixLast, ixN, ixObs>>

\* The Indexing branch, second statement: if the project is in the map,
\* is_indexing_lsp.store(is_indexing, Relaxed).
IxStore ==
    /\ ixPc # <<>>
    /\ ixFlags' = IF ixFlags[ixPc[1].project] # <<>>
                  THEN [ixFlags EXCEPT ![ixPc[1].project] = <<ixPc[1].is_indexing>>]
                  ELSE ixFlags
    /\ ixPc' = <<>>
    /\ UNCHANGED <<ixQ, ixOut, ixSpawned, ixLast, ixN, ixObs>>

\* The consumer of notifier receives a notification and reads the flag of its
\* project; `later` says whether the loop has taken a later notification.
IxConsume ==
    /\ ixOut # <<>>
    /\ ixObs' = <<[ev |-> Head(ixOut), flag |-> ixFlags[Head(ixOut).project],
                   later |-> Len(ixOut) > 1]>>
    /\ ixOut' = Tail(ixOut)
    /\ UNCHANGED <<ixQ, ixFlags, ixPc, ixSpawned, ixLast, ixN>>

IxNext ==
    /\ \/ \E r \in IxRoots : IxAddSpawn(r)
       \/ \E r \in IxRoots : IxAddInsert(r)
       \/ \E r \in IxRoots : IxProgress(r)
       \/ IxForward
       \/ IxStore
       \/ IxConsume
    /\ UNCHANGED <<coreVars, firstVars, caVars, hrVars>>

SpecIndexing == IxInit /\ [][IxNext]_vars

\* C32: the flag of a notification's project is updated before the notification
\* is put on notifier: no notification on notifier awaits its store, and a
\* consumer that receives a notification and reads the flag of its project,
\* no later notification having been taken by the loop, reads the value the
\* notification carries.
C32_FlagStoredBeforeForward ==
    /\ \A i \in DOMAIN ixOut : ixPc # <<ixOut[i]>>
    /\ (ixObs # <<>> /\ ~ixObs[1].later /\ ixObs[1].flag # <<>>)
          => ixObs[1].flag = <<ixObs[1].ev.is_indexing>>

\* What does hold: the store of a notification is done before the loop takes the
\* next one, so that a notification on notifier that is not the last one
\* forwarded has been stored.
C32_StoredBeforeNextForward ==
    \A i \in DOMAIN ixOut : ixPc = <<ixOut[i]>> => i = Len(ixOut)

\* The loop has consumed every notification sent for r.
IxConsumed(r) ==
    /\ \A i \in DOMAIN ixQ : ixQ[i].project # r
    /\ ixPc = <<>> \/ ixPc[1].project # r

\* The flag of r changes only by the store of a notification of r, or by the
\* insert of r.
IxOnlyOwnEvents ==
    \A r \in IxRoots :
        ixFlags'[r] # ixFlags[r]
            => \/ (ixPc # <<>> /\ ixPc[1].project = r /\ ixPc' = <<>>)
               \/ (r \in ixSpawned /\ r \notin ixSpawned')

\* C33: once the loop has consumed every notification sent for a registered
\* root, the root's flag is the is_indexing of the last of them, and the flags
\* of the other roots are not changed by them.
C33_FlagIsLastEmitted ==
    /\ [](\A r \in IxRoots :
            (ixFlags[r] # <<>> /\ ixLast[r] # <<>> /\ IxConsumed(r)) => ixFlags[r] = ixLast[r])
    /\ [][IxOnlyOwnEvents]_vars

\* What does hold: the notifications of a root change no other root's flag.
C33_OtherRootsUnaffected == [][IxOnlyOwnEvents]_vars

=============================================================================
